---- MODULE Spec2Model ----
(***************************************************************************)
(* Statistical analysis engine of the OWL2 reasoner benchmark suite        *)
(* (statistical_analysis_engine.py, enhanced_data_structures.py).          *)
(*                                                                         *)
(* Numbers.  Execution times are small naturals (milliseconds).  Derived   *)
(* quantities are exact: a rational is a pair <<n, d>> in lowest terms     *)
(* with d > 0, and a quantity that is a square root of a rational (a       *)
(* standard deviation, Cohen's d) is a record [sgn, sq] standing for       *)
(* sgn * sqrt(sq).  A Python dict is the sequence of its [key, val]        *)
(* entries in insertion order.  NaN is float('nan'), a non-finite value.   *)
(***************************************************************************)
EXTENDS Integers, Sequences, FiniteSets, TLC

VARIABLES
    test_results,   \* suite.test_results: the caller's list of PublicationTestResult
    returned,       \* per process: what each call of the engine returned, with the input it was given
    results_cache,  \* per process: engine.results_cache (suite name -> bundle)
    scipy,          \* the behaviour of the scipy.stats routines observed so far (call -> outcome)
    hashSeed,       \* per process: the string-hash randomisation that orders set iteration
    significance_level, \* engine.significance_level, in thousandths
    groupA,         \* comparison harness: data1 of a direct _perform_statistical_test call
    groupB,         \* comparison harness: data2
    compared,       \* comparison harness: results of the direct calls, by argument order
    calls,          \* concurrent harness: the invocations in flight
    nanStdevRaises, \* the interpreter: whether statistics.stdev raises on NaN (3.11) or returns NaN
    profiler        \* a CrossPlatformMemoryProfiler, its lists, its sampler threads and its caller

vars == <<test_results, returned, results_cache, scipy, hashSeed, significance_level, groupA, groupB, compared, calls, nanStdevRaises, profiler>>

-----------------------------------------------------------------------------
(* Bounds of the model *)

MaxResults == 3
MaxGroup == 3
MaxRepeat == 2
MaxSnapshot == 1
MaxOutlierGroup == 5
MaxScalePoints == 3

(* Program constants *)

MinSampleSize == 3
MinOutlierSample == 4
NormalityAlpha == 50
DefaultSignificanceLevel == 50

\* p-values and significance levels are in thousandths: 50 is 0.05
NaN == -1
PLevels == {10, 50, 200}
AssumptionLevels == {50, 200}
Alphas == {10, 50}
TimeValues == {1, 2}

Reasoners == {"A", "B"}
Operations == {"classification", "consistency"}
Procs == {1, 2}
SuiteName == "suite"

-----------------------------------------------------------------------------
(* Exact arithmetic *)

Abs(x) == IF x < 0 THEN -x ELSE x

RECURSIVE GCD(_, _)
GCD(a, b) == IF b = 0 THEN a ELSE GCD(b, a % b)

\* n / d in lowest terms; <<0, 0>> is NaN
Rat(n, d) ==
    LET g == GCD(Abs(n), Abs(d))
        s == IF d < 0 THEN -1 ELSE 1
    IN  IF d = 0 THEN <<0, 0>> ELSE <<(s * n) \div g, (s * d) \div g>>

RNaN == <<0, 0>>
RInt(k) == IF k = NaN THEN RNaN ELSE <<k, 1>>
RAdd(a, b) == Rat(a[1] * b[2] + b[1] * a[2], a[2] * b[2])
RSub(a, b) == Rat(a[1] * b[2] - b[1] * a[2], a[2] * b[2])
RMul(a, b) == Rat(a[1] * b[1], a[2] * b[2])
RDiv(a, b) == Rat(a[1] * b[2], a[2] * b[1])
RNeg(a) == <<-a[1], a[2]>>
RAbs(a) == <<Abs(a[1]), a[2]>>
RLt(a, b) == a[1] * b[2] < b[1] * a[2]
RLe(a, b) == a[1] * b[2] <= b[1] * a[2]
RSgn(a) == IF a[1] > 0 THEN 1 ELSE IF a[1] < 0 THEN -1 ELSE 0

\* sgn * sqrt(sq)
Root(sgn, sq) == [sgn |-> IF sq[1] = 0 THEN 0 ELSE sgn, sq |-> sq]
RootOfRat(a) == Root(RSgn(a), RMul(a, a))
RootNeg(x) == [sgn |-> -x.sgn, sq |-> x.sq]

RECURSIVE SumSeq(_)
SumSeq(s) == IF s = <<>> THEN 0 ELSE s[1] + SumSeq(Tail(s))

SumSq(s) == SumSeq([i \in 1..Len(s) |-> s[i] * s[i]])

Front(s) == SubSeq(s, 1, Len(s) - 1)

RECURSIVE Dedup(_)
Dedup(s) ==
    IF s = <<>> THEN <<>>
    ELSE LET p == Dedup(Front(s))
             x == s[Len(s)]
         IN  IF \E i \in 1..Len(p) : p[i] = x THEN p ELSE Append(p, x)

Range(s) == {s[i] : i \in 1..Len(s)}
Count(s, x) == Cardinality({i \in 1..Len(s) : s[i] = x})

-----------------------------------------------------------------------------
(* statistics / numpy routines on a list of numbers *)

HasNaN(xs) == \E i \in 1..Len(xs) : xs[i] = NaN

\* lexicographic order on lists of numbers, shorter first
RECURSIVE SeqLe(_, _)
SeqLe(a, b) ==
    IF Len(a) # Len(b) THEN Len(a) < Len(b)
    ELSE IF a = <<>> THEN TRUE
    ELSE IF a[1] # b[1] THEN a[1] < b[1]
    ELSE SeqLe(Tail(a), Tail(b))

\* a < b on floats: false when either is NaN
ISLT(a, b) == a # NaN /\ b # NaN /\ a < b

Reverse(s) == [i \in 1..Len(s) |-> s[Len(s) + 1 - i]]

\* list.sort: the initial run (reversed when strictly descending), then binary
\* insertion of the remaining elements, every comparison an ISLT
RECURSIVE ExtendRun(_, _, _)
ExtendRun(xs, n, descending) ==
    IF n >= Len(xs) THEN n
    ELSE IF ISLT(xs[n + 1], xs[n]) = descending THEN ExtendRun(xs, n + 1, descending)
    ELSE n

CountRun(xs) == IF Len(xs) < 2 THEN Len(xs) ELSE ExtendRun(xs, 2, ISLT(xs[2], xs[1]))

RECURSIVE BinPos(_, _, _, _)
BinPos(s, pivot, l, r) ==
    IF l >= r THEN l
    ELSE LET p == l + ((r - l) \div 2)
         IN  IF ISLT(pivot, s[p]) THEN BinPos(s, pivot, l, p)
             ELSE BinPos(s, pivot, p + 1, r)

RECURSIVE InsertAll(_, _)
InsertAll(prefix, rest) ==
    IF rest = <<>> THEN prefix
    ELSE LET pos == BinPos(prefix, rest[1], 1, Len(prefix) + 1)
         IN  InsertAll(SubSeq(prefix, 1, pos - 1) \o <<rest[1]>>
                          \o SubSeq(prefix, pos, Len(prefix)),
                       Tail(rest))

Sorted(xs) ==
    LET n == CountRun(xs)
        run == SubSeq(xs, 1, n)
    IN  InsertAll(IF n >= 2 /\ ISLT(xs[2], xs[1]) THEN Reverse(run) ELSE run,
                  SubSeq(xs, n + 1, Len(xs)))

\* statistics.mean
Mean(xs) == IF HasNaN(xs) THEN RNaN ELSE Rat(SumSeq(xs), Len(xs))

\* statistics.median
Median(xs) ==
    LET s == Sorted(xs)
        n == Len(xs)
    IN  IF n % 2 = 1 THEN RInt(s[(n + 1) \div 2])
        ELSE RDiv(RAdd(RInt(s[n \div 2]), RInt(s[n \div 2 + 1])), RInt(2))

\* statistics.variance (sample variance, denominator n - 1); needs n >= 2
Variance(xs) ==
    LET n == Len(xs)
    IN  IF HasNaN(xs) THEN RNaN
        ELSE Rat(n * SumSq(xs) - SumSeq(xs) * SumSeq(xs), n * (n - 1))

\* statistics.stdev
Stdev(xs) == Root(1, Variance(xs))

\* min(xs), max(xs): the first element stays unless a later one compares below / above it
RECURSIVE MinFrom(_, _)
MinFrom(m, rest) ==
    IF rest = <<>> THEN m
    ELSE MinFrom(IF ISLT(rest[1], m) THEN rest[1] ELSE m, Tail(rest))

RECURSIVE MaxFrom(_, _)
MaxFrom(m, rest) ==
    IF rest = <<>> THEN m
    ELSE MaxFrom(IF ISLT(m, rest[1]) THEN rest[1] ELSE m, Tail(rest))

MinOf(xs) == MinFrom(xs[1], Tail(xs))
MaxOf(xs) == MaxFrom(xs[1], Tail(xs))

\* the percentile taken at the lower of the two closest ranks (no interpolation)
PercentileLower(xs, q) ==
    IF HasNaN(xs) THEN RNaN
    ELSE RInt(Sorted(xs)[((Len(xs) - 1) * q) \div 100 + 1])

\* np.percentile(xs, q), linear interpolation between closest ranks; NaN propagates
Percentile(xs, q) ==
    LET s == Sorted(xs)
        n == Len(xs)
        lo == ((n - 1) * q) \div 100
        frac == Rat((n - 1) * q - lo * 100, 100)
    IN  IF HasNaN(xs) THEN RNaN
        ELSE IF lo + 1 >= n THEN RInt(s[n])
        ELSE RAdd(RInt(s[lo + 1]), RMul(frac, RInt(s[lo + 2] - s[lo + 1])))

-----------------------------------------------------------------------------
(* Grouping *)

\* the filter on success alone
SuccessfulOnly(results) == SelectSeq(results, LAMBDA r : r.success)

\* the filter the engine applies before every statistic
Successful(results) ==
    SelectSeq(results, LAMBDA r : r.success /\ ~r.timeout_occurred)

Times(results) == [i \in 1..Len(results) |-> results[i].execution_time_ms]

GroupKey(r) == <<r.reasoner_name, r.test_operation>>

\* _group_results: (reasoner, operation) -> results, keys in order of first appearance
GroupResults(results) ==
    LET keys == Dedup([i \in 1..Len(results) |-> GroupKey(results[i])])
    IN  [k \in 1..Len(keys) |->
            [key |-> keys[k],
             val |-> SelectSeq(results, LAMBDA r : GroupKey(r) = keys[k])]]

\* _group_by_reasoner
GroupByReasoner(results) ==
    LET keys == Dedup([i \in 1..Len(results) |-> results[i].reasoner_name])
    IN  [k \in 1..Len(keys) |->
            [key |-> keys[k],
             val |-> SelectSeq(results, LAMBDA r : r.reasoner_name = keys[k])]]

\* f"{reasoner}_{operation}"
StatsKey(reasoner, operation) == <<reasoner, "_", operation>>

-----------------------------------------------------------------------------
(* _basic_statistical_analysis *)

CountWhere(results, P(_)) == Len(SelectSeq(results, P))

\* the summary with the successes counted as the groups count them
SummaryOfUntimed(results) ==
    [total_tests |-> Len(results),
     successful_tests |-> Len(Successful(results)),
     failed_tests |-> CountWhere(results, LAMBDA r : ~r.success),
     timeout_rate |->
        Rat(CountWhere(results, LAMBDA r : r.timeout_occurred) * 100, Len(results)),
     overall_success_rate |-> Rat(Len(Successful(results)) * 100, Len(results))]

\* basic_stats['summary']
BasicSummary(results) ==
    [total_tests |-> Len(results),
     successful_tests |-> CountWhere(results, LAMBDA r : r.success),
     failed_tests |-> CountWhere(results, LAMBDA r : ~r.success),
     timeout_rate |->
        Rat(CountWhere(results, LAMBDA r : r.timeout_occurred) * 100, Len(results)),
     overall_success_rate |->
        Rat(CountWhere(results, LAMBDA r : r.success) * 100, Len(results))]

GroupStats(execution_times) ==
    [count |-> Len(execution_times),
     mean_ms |-> Mean(execution_times),
     median_ms |-> Median(execution_times),
     std_dev_ms |-> IF Len(execution_times) > 1 THEN Stdev(execution_times)
                    ELSE Root(0, RInt(0)),
     min_ms |-> MinOf(execution_times),
     max_ms |-> MaxOf(execution_times),
     range_ms |-> RSub(RInt(MaxOf(execution_times)), RInt(MinOf(execution_times))),
     coefficient_of_variation |->
        IF Len(execution_times) > 1
        THEN Root(1, RDiv(Variance(execution_times),
                          RMul(Mean(execution_times), Mean(execution_times))))
        ELSE Root(0, RInt(0)),
     percentile_25 |-> Percentile(execution_times, 25),
     percentile_75 |-> Percentile(execution_times, 75),
     iqr |-> RSub(Percentile(execution_times, 75), Percentile(execution_times, 25))]

\* The exceptions the statistics of one group raise: statistics.stdev on NaN
\* (interpreter-dependent), ZeroDivisionError on stdev / mean with mean 0.
GroupStatsRaises(execution_times, stdevRaises) ==
    /\ Len(execution_times) > 1
    /\ IF HasNaN(execution_times) THEN stdevRaises
       ELSE SumSeq(execution_times) = 0

\* ZeroDivisionError on the rates of an empty suite
BasicRaises(results, stdevRaises) ==
    \/ Len(results) = 0
    \/ \E g \in Range(GroupResults(results)) :
          /\ Successful(g.val) # <<>>
          /\ GroupStatsRaises(Times(Successful(g.val)), stdevRaises)

BasicStatisticalAnalysis(results) ==
    LET groups == SelectSeq(GroupResults(results),
                            LAMBDA g : Successful(g.val) # <<>>)
    IN  [summary |-> BasicSummary(results),
         groups |-> [k \in 1..Len(groups) |->
                        [key |-> StatsKey(groups[k].key[1], groups[k].key[2]),
                         val |-> GroupStats(Times(Successful(groups[k].val)))]]]

-----------------------------------------------------------------------------
(* scipy.stats.  The routines are outside the repository: which p-value    *)
(* they return for given data, and whether they raise, is an input.  What  *)
(* is fixed is that a routine is a function of its arguments (the same     *)
(* call gives the same outcome, kept in the variable scipy), and that      *)
(* levene, the two-sided ttest_ind and the two-sided mannwhitneyu give     *)
(* the same p-value for (x, y) and (y, x).  The statistic is computed.     *)

Outcomes ==
    {[raised |-> FALSE, p |-> v] : v \in PLevels} \cup {[raised |-> TRUE, p |-> 0]}

OrderedPair(x, y) == IF SeqLe(x, y) THEN <<x, y>> ELSE <<y, x>>

ShapiroCall(data) == [fn |-> "shapiro", a |-> data, b |-> <<>>]
LeveneCall(data1, data2) ==
    [fn |-> "levene", a |-> OrderedPair(data1, data2)[1], b |-> OrderedPair(data1, data2)[2]]
TestCall(kind, data1, data2) ==
    [fn |-> kind, a |-> OrderedPair(data1, data2)[1], b |-> OrderedPair(data1, data2)[2]]

\* what the library does on a call: lib holds the outcome of each call, a test under
\* the name of its routine or under "test" when the routine is yet to be selected
Outcome(lib, call) ==
    IF call \in DOMAIN lib THEN lib[call] ELSE lib[[call EXCEPT !.fn = "test"]]

\* _check_normality
CheckNormality(data, lib) ==
    IF Len(data) < 3 THEN FALSE
    ELSE IF Outcome(lib, ShapiroCall(data)).raised THEN FALSE
    ELSE Outcome(lib, ShapiroCall(data)).p > NormalityAlpha

\* _check_equal_variance
CheckEqualVariance(data1, data2, lib) ==
    IF Len(data1) < 3 \/ Len(data2) < 3 THEN TRUE
    ELSE IF Outcome(lib, LeveneCall(data1, data2)).raised THEN TRUE
    ELSE Outcome(lib, LeveneCall(data1, data2)).p > NormalityAlpha

\* a selection that looks at the variance check before the normality checks
TestTypeVarianceFirst(data1, data2, lib) ==
    IF ~CheckEqualVariance(data1, data2, lib) THEN "Welch's t-test"
    ELSE IF CheckNormality(data1, lib) /\ CheckNormality(data2, lib)
    THEN "Independent t-test"
    ELSE "Mann-Whitney U test"

\* the test _perform_statistical_test selects
TestType(data1, data2, lib) ==
    IF CheckNormality(data1, lib) /\ CheckNormality(data2, lib)
          /\ CheckEqualVariance(data1, data2, lib)
    THEN "Independent t-test"
    ELSE IF CheckNormality(data1, lib) /\ CheckNormality(data2, lib)
          /\ ~CheckEqualVariance(data1, data2, lib)
    THEN "Welch's t-test"
    ELSE "Mann-Whitney U test"

\* sum of squared deviations from the mean: (n - 1) * variance
SumSqDev(xs) == Rat(Len(xs) * SumSq(xs) - SumSeq(xs) * SumSeq(xs), Len(xs))

\* U of the first sample: pairs with x > y, ties counted half
MannWhitneyU(data1, data2) ==
    LET gt == Cardinality({<<i, j>> \in (1..Len(data1)) \X (1..Len(data2)) :
                              data1[i] > data2[j]})
        eq == Cardinality({<<i, j>> \in (1..Len(data1)) \X (1..Len(data2)) :
                              data1[i] = data2[j]})
    IN  IF HasNaN(data1) \/ HasNaN(data2) THEN RNaN ELSE Rat(2 * gt + eq, 2)

\* the statistic as the quotient num / sqrt(den_sq) the routine computes
TestStatistic(kind, data1, data2) ==
    LET n1 == Len(data1)
        n2 == Len(data2)
        diff == RSub(Mean(data1), Mean(data2))
    IN  IF kind = "Independent t-test"
        THEN [num |-> diff,
              den_sq |-> RMul(RDiv(RAdd(SumSqDev(data1), SumSqDev(data2)), RInt(n1 + n2 - 2)),
                              Rat(n1 + n2, n1 * n2))]
        ELSE IF kind = "Welch's t-test"
        THEN [num |-> diff,
              den_sq |-> RAdd(RDiv(Variance(data1), RInt(n1)), RDiv(Variance(data2), RInt(n2)))]
        ELSE [num |-> MannWhitneyU(data1, data2), den_sq |-> RInt(1)]

\* the signed standardised difference (mean1 - mean2) / pooled_std
SignedCohensD(data1, data2) ==
    LET n1 == Len(data1)
        n2 == Len(data2)
        pooled_var == RDiv(RAdd(SumSqDev(data1), SumSqDev(data2)), RInt(n1 + n2 - 2))
        diff == RSub(Mean(data1), Mean(data2))
    IN  IF pooled_var[1] = 0 THEN Root(0, RInt(0))
        ELSE Root(RSgn(diff), RDiv(RMul(diff, diff), pooled_var))

\* _calculate_cohens_d
CalculateCohensD(data1, data2) ==
    LET n1 == Len(data1)
        n2 == Len(data2)
        var1 == IF n1 > 1 THEN Variance(data1) ELSE RInt(0)
        var2 == IF n2 > 1 THEN Variance(data2) ELSE RInt(0)
        pooled_var == RDiv(RAdd(RMul(RInt(n1 - 1), var1), RMul(RInt(n2 - 1), var2)),
                           RInt(n1 + n2 - 2))
        diff == RAbs(RSub(Mean(data1), Mean(data2)))
    IN  IF pooled_var[1] = 0 THEN Root(0, RInt(0))
        ELSE Root(1, RDiv(RMul(diff, diff), pooled_var))

\* _calculate_rank_biserial
CalculateRankBiserial(data1, data2, statistic) ==
    RootOfRat(RSub(RDiv(statistic.num, RInt(Len(data1) * Len(data2))), Rat(1, 2)))

\* _welch_satterthwaite_df
WelchSatterthwaiteDf(data1, data2) ==
    LET var1 == Variance(data1)
        var2 == Variance(data2)
        n1 == Len(data1)
        n2 == Len(data2)
        s == RAdd(RDiv(var1, RInt(n1)), RDiv(var2, RInt(n2)))
        numerator == RMul(s, s)
        denominator == RAdd(RDiv(RMul(var1, var1), RInt(n1 * n1 * (n1 - 1))),
                            RDiv(RMul(var2, var2), RInt(n2 * n2 * (n2 - 1))))
    IN  IF denominator[1] > 0 THEN RDiv(numerator, denominator)
        ELSE RInt(IF n1 - 1 < n2 - 1 THEN n1 - 1 ELSE n2 - 1)

\* center + side * t.ppf(0.975, df) * sqrt(se_sq); side is 0 when the margin is 0
Bound(center, side, df, se_sq) ==
    [center |-> center, side |-> IF se_sq[1] = 0 THEN 0 ELSE side, df |-> df, se_sq |-> se_sq]

\* _calculate_confidence_interval: (ci_lower, ci_upper)
CalculateConfidenceInterval(data1, data2) ==
    LET mean_diff == RSub(Mean(data1), Mean(data2))
        se_sq == RAdd(RDiv(Variance(data1), RInt(Len(data1))),
                      RDiv(Variance(data2), RInt(Len(data2))))
        df == WelchSatterthwaiteDf(data1, data2)
    IN  <<Bound(mean_diff, -1, df, se_sq), Bound(mean_diff, 1, df, se_sq)>>

\* f"{reasoner1}_vs_{reasoner2}_{operation}"
TestName(reasoner1, reasoner2, operation) ==
    <<reasoner1, "_vs_", reasoner2, "_", operation>>

ZeroBound == Bound(RInt(0), 0, RInt(0), RInt(0))

\* the marker the specification reserves for samples that are too small
InsufficientDataType == "InsufficientData"

\* the test_type of the result built in the except branch
ErrorTestType == "Error"

\* _perform_statistical_test; lib gives the outcome of each scipy call made
PerformStatisticalTest(data1, data2, reasoner1, reasoner2, operation, lib, alpha) ==
    LET test_type == TestType(data1, data2, lib)
        out == Outcome(lib, TestCall(test_type, data1, data2))
        statistic == TestStatistic(test_type, data1, data2)
        mean_diff == RSub(Mean(data1), Mean(data2))
        significant == out.p < alpha
    IN  IF out.raised
        THEN [test_name |-> TestName(reasoner1, reasoner2, operation),
              test_type |-> ErrorTestType,
              statistic |-> [num |-> RInt(0), den_sq |-> RInt(1)],
              p_value |-> 1000,
              effect_size |-> Root(0, RInt(0)),
              confidence_interval |-> <<ZeroBound, ZeroBound>>,
              interpretation |-> <<"Statistical test failed">>,
              significance_level |-> alpha]
        ELSE [test_name |-> TestName(reasoner1, reasoner2, operation),
              test_type |-> test_type,
              statistic |-> statistic,
              p_value |-> out.p,
              effect_size |->
                  IF test_type \in {"Independent t-test", "Welch's t-test"}
                  THEN CalculateCohensD(data1, data2)
                  ELSE CalculateRankBiserial(data1, data2, statistic),
              confidence_interval |-> CalculateConfidenceInterval(data1, data2),
              interpretation |->
                  IF significant
                  THEN <<reasoner1, "is significantly",
                         IF RSgn(mean_diff) < 0 THEN "faster" ELSE "slower",
                         "than", reasoner2, "for", operation>>
                  ELSE <<"No significant difference between", reasoner1, "and",
                         reasoner2, "for", operation>>,
              significance_level |-> alpha]

-----------------------------------------------------------------------------
(* _significance_testing *)

RECURSIVE PairsFrom(_, _, _)
PairsFrom(i, j, n) ==
    IF i >= n THEN <<>>
    ELSE IF j > n THEN PairsFrom(i + 1, i + 2, n)
    ELSE <<<<i, j>>>> \o PairsFrom(i, j + 1, n)

\* enumerate(xs) x enumerate(xs[i+1:], i+1): the index pairs i < j, in loop order
IndexPairs(n) == PairsFrom(1, 2, n)

Names(results) == [i \in 1..Len(results) |-> results[i].reasoner_name]

\* reasoner -> execution times, for the successful results of one operation
ReasonerData(of_operation, reasoners) ==
    [m \in 1..Len(reasoners) |->
        [key |-> reasoners[m],
         val |-> Times(SelectSeq(of_operation, LAMBDA r : r.reasoner_name = reasoners[m]))]]

\* the reasoners of an operation come in the order of their first result for it
ReasonersData(of_operation) == ReasonerData(of_operation, Dedup(Names(of_operation)))

OperationData(succ, operations) ==
    [k \in 1..Len(operations) |->
        [key |-> operations[k],
         val |-> ReasonersData(SelectSeq(succ, LAMBDA r : r.test_operation = operations[k]))]]

OperationsOf(succ) == Dedup([i \in 1..Len(succ) |-> succ[i].test_operation])

\* operation_groups: operation -> reasoner -> execution times of the successful results
OperationGroups(results) ==
    OperationData(Successful(results), OperationsOf(Successful(results)))

\* the pairs of one operation that get a test: both samples of the minimum size
TestedPairs(reasoner_data) ==
    SelectSeq(IndexPairs(Len(reasoner_data)),
              LAMBDA ij : /\ Len(reasoner_data[ij[1]].val) >= MinSampleSize
                          /\ Len(reasoner_data[ij[2]].val) >= MinSampleSize)

OperationResults(operation, reasoner_data, lib, alpha) ==
    LET pairs == TestedPairs(reasoner_data)
    IN  [k \in 1..Len(pairs) |->
            LET r1 == reasoner_data[pairs[k][1]]
                r2 == reasoner_data[pairs[k][2]]
            IN  [key |-> TestName(r1.key, r2.key, operation),
                 val |-> PerformStatisticalTest(r1.val, r2.val, r1.key, r2.key,
                                                operation, lib, alpha)]]

SignificanceTesting(results, lib, alpha) ==
    LET operation_groups == OperationGroups(results)
    IN  [k \in 1..Len(operation_groups) |->
            [key |-> operation_groups[k].key,
             val |-> OperationResults(operation_groups[k].key, operation_groups[k].val,
                                      lib, alpha)]]

\* the (data1, data2) arguments of the tests _significance_testing runs
TestedData(results) ==
    LET og == OperationGroups(results)
    IN  UNION {{<<og[k].val[ij[1]].val, og[k].val[ij[2]].val>> :
                    ij \in Range(TestedPairs(og[k].val))} : k \in 1..Len(og)}

\* the scipy calls a test of (data1, data2) may make; the test called is one of three
CallSlots(data1, data2) ==
    {ShapiroCall(data1), ShapiroCall(data2), LeveneCall(data1, data2),
     TestCall("test", data1, data2)}

TestKinds == {"Independent t-test", "Welch's t-test", "Mann-Whitney U test"}

\* the calls a test of (data1, data2) makes under the library lib
CallsMade(data1, data2, lib) ==
    {ShapiroCall(data1), ShapiroCall(data2), LeveneCall(data1, data2),
     TestCall(TestType(data1, data2, lib), data1, data2)}

\* lib agrees with what the routines did before
Admissible(lib, made, memo) ==
    \A c \in made : c \in DOMAIN memo => memo[c] = Outcome(lib, c)

Remember(lib, made, memo) ==
    [c \in DOMAIN memo \cup made |->
        IF c \in DOMAIN memo THEN memo[c] ELSE Outcome(lib, c)]

-----------------------------------------------------------------------------
(* Iteration over a set of strings follows the hash slots: the order the   *)
(* process's hash seed gives, here a permutation of the names.             *)

RECURSIVE Perms(_)
Perms(S) ==
    IF S = {} THEN {<<>>}
    ELSE UNION {{<<x>> \o q : q \in Perms(S \ {x})} : x \in S}

Seeds == Perms(Reasoners)

\* list(set(names)) / for name in set(names)
SetOrder(S, seed) == SelectSeq(seed, LAMBDA x : x \in S)

-----------------------------------------------------------------------------
(* EnhancedDataAnalyzer._perform_significance_testing *)

SuccessTimesOf(results, reasoner) ==
    LET groups == GroupResults(results)
        OfGroup(g) == IF g.key[1] = reasoner
                      THEN Times(SelectSeq(g.val, LAMBDA r : r.success))
                      ELSE <<>>
        Cat[k \in 0..Len(groups)] ==
            IF k = 0 THEN <<>> ELSE Cat[k - 1] \o OfGroup(groups[k])
    IN  Cat[Len(groups)]

PooledVariance(times1, times2) ==
    RDiv(RAdd(RMul(RInt(Len(times1) - 1), Variance(times1)),
              RMul(RInt(Len(times2) - 1), Variance(times2))),
         RInt(Len(times1) + Len(times2) - 2))

\* the p-value 2 * (1 - _t_cdf(t_stat, df)) as its arguments: t_stat squared and df
SimplifiedPValue(times1, times2) ==
    LET diff == RSub(Mean(times1), Mean(times2))
    IN  IF Len(times1) > 1 /\ Len(times2) > 1
        THEN [default |-> FALSE,
              t_sq |-> RDiv(RMul(diff, diff),
                            RMul(PooledVariance(times1, times2),
                                 Rat(Len(times1) + Len(times2), Len(times1) * Len(times2)))),
              df |-> Len(times1) + Len(times2) - 2]
        ELSE [default |-> TRUE, t_sq |-> RInt(0), df |-> 0]

SimplifiedKey(reasoner1, reasoner2) == <<reasoner1, "_vs_", reasoner2>>

ReasonerNameSet(results) == {results[i].reasoner_name : i \in 1..Len(results)}

PerformSignificanceTesting(results, seed) ==
    LET reasoner_names == SetOrder(ReasonerNameSet(results), seed)
        pairs == SelectSeq(IndexPairs(Len(reasoner_names)),
                    LAMBDA ij : /\ SuccessTimesOf(results, reasoner_names[ij[1]]) # <<>>
                                /\ SuccessTimesOf(results, reasoner_names[ij[2]]) # <<>>)
    IN  [k \in 1..Len(pairs) |->
            [key |-> SimplifiedKey(reasoner_names[pairs[k][1]], reasoner_names[pairs[k][2]]),
             val |-> SimplifiedPValue(SuccessTimesOf(results, reasoner_names[pairs[k][1]]),
                                      SuccessTimesOf(results, reasoner_names[pairs[k][2]]))]]

\* stdev on NaN (interpreter-dependent); ZeroDivisionError on a zero pooled deviation
PerformSignificanceTestingRaises(results, stdevRaises) ==
    \E r1, r2 \in ReasonerNameSet(results) :
        LET times1 == SuccessTimesOf(results, r1)
            times2 == SuccessTimesOf(results, r2)
        IN  /\ r1 # r2
            /\ times1 # <<>>
            /\ times2 # <<>>
            /\ \/ Len(times1) > 1 /\ HasNaN(times1) /\ stdevRaises
               \/ /\ Len(times1) > 1
                  /\ Len(times2) > 1
                  /\ ~HasNaN(times1)
                  /\ ~HasNaN(times2)
                  /\ PooledVariance(times1, times2)[1] = 0

-----------------------------------------------------------------------------
(* _pairwise_comparisons / _compare_reasoners_pairwise *)

ReasonerStats(times) ==
    [mean |-> Mean(times),
     median |-> Median(times),
     std_dev |-> IF Len(times) > 1 THEN Stdev(times) ELSE Root(0, RInt(0)),
     count |-> Len(times)]

MinRat(a, b) == IF RLt(b, a) THEN b ELSE a

CompareReasonersPairwise(results1, results2) ==
    LET times1 == Times(Successful(results1))
        times2 == Times(Successful(results2))
        absolute == RAbs(RSub(Mean(times1), Mean(times2)))
    IN  IF times1 = <<>> \/ times2 = <<>>
        THEN <<"Insufficient successful tests for comparison">>
        ELSE <<[reasoner1_stats |-> ReasonerStats(times1),
                reasoner2_stats |-> ReasonerStats(times2),
                performance_difference |->
                    [absolute |-> absolute,
                     relative |-> RMul(RDiv(absolute, MinRat(Mean(times1), Mean(times2))),
                                       RInt(100))]]>>

PairwiseComparisons(results) ==
    LET reasoner_groups == GroupByReasoner(results)
        pairs == IndexPairs(Len(reasoner_groups))
    IN  [k \in 1..Len(pairs) |->
            [key |-> SimplifiedKey(reasoner_groups[pairs[k][1]].key,
                                   reasoner_groups[pairs[k][2]].key),
             val |-> CompareReasonersPairwise(reasoner_groups[pairs[k][1]].val,
                                              reasoner_groups[pairs[k][2]].val)]]

PairwiseComparisonsRaises(results, stdevRaises) ==
    LET reasoner_groups == GroupByReasoner(results)
        Bad(times) == Len(times) > 1 /\ HasNaN(times) /\ stdevRaises
    IN  \E i, j \in 1..Len(reasoner_groups) :
            LET times1 == Times(Successful(reasoner_groups[i].val))
                times2 == Times(Successful(reasoner_groups[j].val))
            IN  /\ i < j
                /\ times1 # <<>>
                /\ times2 # <<>>
                /\ \/ Bad(times1)
                   \/ Bad(times2)
                   \/ ~HasNaN(times1) /\ ~HasNaN(times2)
                        /\ MinRat(Mean(times1), Mean(times2))[1] = 0

\* _comparative_analysis
ComparativeAnalysis(results, seed) ==
    [statistical_significance |-> PerformSignificanceTesting(results, seed),
     pairwise_comparisons |-> PairwiseComparisons(results)]

ComparativeRaises(results, stdevRaises) ==
    \/ PerformSignificanceTestingRaises(results, stdevRaises)
    \/ PairwiseComparisonsRaises(results, stdevRaises)

-----------------------------------------------------------------------------
(* _scalability_analysis *)

\* math.log on an exact power of ten, in units of log(10)
RECURSIVE Log10(_)
Log10(x) == IF x <= 1 THEN 0 ELSE 1 + Log10(x \div 10)

LogOf(q) == IF q = RNaN THEN RNaN ELSE RInt(Log10(q[1]))

RECURSIVE RSum(_)
RSum(s) == IF s = <<>> THEN RInt(0) ELSE RAdd(s[1], RSum(Tail(s)))

DefaultComplexity == [exponent |-> RInt(1), r_squared |-> RInt(0)]

\* _calculate_complexity_exponent: least squares on the logarithms
CalculateComplexityExponent(scale_data) ==
    LET n == Len(scale_data)
        log_scales == [i \in 1..n |-> LogOf(RInt(scale_data[i][1]))]
        log_values == [i \in 1..n |-> LogOf(scale_data[i][2])]
        sum_x == RSum(log_scales)
        sum_y == RSum(log_values)
        sum_xy == RSum([i \in 1..n |-> RMul(log_scales[i], log_values[i])])
        sum_x2 == RSum([i \in 1..n |-> RMul(log_scales[i], log_scales[i])])
        slope == RDiv(RSub(RMul(RInt(n), sum_xy), RMul(sum_x, sum_y)),
                      RSub(RMul(RInt(n), sum_x2), RMul(sum_x, sum_x)))
        intercept == RDiv(RSub(sum_y, RMul(slope, sum_x)), RInt(n))
        y_mean == RDiv(sum_y, RInt(n))
        Sq(q) == RMul(q, q)
        ss_tot == RSum([i \in 1..n |-> Sq(RSub(log_values[i], y_mean))])
        ss_res == RSum([i \in 1..n |->
                     Sq(RSub(log_values[i], RAdd(RMul(slope, log_scales[i]), intercept)))])
    IN  IF n < 2 THEN DefaultComplexity
        ELSE [exponent |-> slope,
              r_squared |-> IF RSgn(ss_tot) > 0 THEN RSub(RInt(1), RDiv(ss_res, ss_tot))
                            ELSE RInt(0)]

\* a breakpoint at every step whose time grows faster than the scale
AnalyzeBreakpointsAtAnyGrowth(scale_performance) ==
    LET n == Len(scale_performance)
        Faster(i) ==
            RLt(Rat(scale_performance[i][1] - scale_performance[i - 1][1],
                    scale_performance[i - 1][1]),
                RDiv(RSub(scale_performance[i][2], scale_performance[i - 1][2]),
                     scale_performance[i - 1][2]))
        flagged == SelectSeq([i \in 1..(n - 1) |-> i + 1], Faster)
    IN  IF n < 3 THEN [breakpoints |-> <<>>, analysis |-> <<"Insufficient data">>]
        ELSE [breakpoints |->
                 [k \in 1..Len(flagged) |->
                     [scale |-> scale_performance[flagged[k]][1],
                      time |-> scale_performance[flagged[k]][2],
                      degradation_factor |-> RInt(1),
                      severity |-> "moderate"]],
              analysis |-> <<"Found ", Len(flagged), " performance breakpoints">>]

\* _analyze_breakpoints
AnalyzeBreakpoints(scale_performance) ==
    LET n == Len(scale_performance)
        TimeIncrease(i) ==
            RMul(RDiv(RSub(scale_performance[i][2], scale_performance[i - 1][2]),
                      scale_performance[i - 1][2]), RInt(100))
        ScaleIncrease(i) ==
            Rat((scale_performance[i][1] - scale_performance[i - 1][1]) * 100,
                scale_performance[i - 1][1])
        flagged == SelectSeq([i \in 1..(n - 1) |-> i + 1],
                     LAMBDA i : RLt(RMul(ScaleIncrease(i), RInt(2)), TimeIncrease(i)))
        breakpoints ==
            [k \in 1..Len(flagged) |->
                [scale |-> scale_performance[flagged[k]][1],
                 time |-> scale_performance[flagged[k]][2],
                 degradation_factor |-> RDiv(TimeIncrease(flagged[k]), ScaleIncrease(flagged[k])),
                 severity |-> IF RLt(RMul(ScaleIncrease(flagged[k]), RInt(3)),
                                     TimeIncrease(flagged[k]))
                              THEN "high" ELSE "moderate"]]
    IN  IF n < 3 THEN [breakpoints |-> <<>>, analysis |-> <<"Insufficient data">>]
        ELSE [breakpoints |-> breakpoints,
              analysis |-> <<"Found ", Len(breakpoints), " performance breakpoints">>]

\* scale_groups: the triples counts of the successful results, in order of first appearance
ScaleKeys(results) ==
    Dedup([i \in 1..Len(Successful(results)) |-> Successful(results)[i].triples_count])

\* scale_performance of one reasoner: (scale, mean execution time), in scale_groups order
ScalePerformance(results, reasoner) ==
    LET At(scale) == SelectSeq(Successful(results),
                        LAMBDA r : r.triples_count = scale /\ r.reasoner_name = reasoner)
        scales == SelectSeq(ScaleKeys(results), LAMBDA scale : At(scale) # <<>>)
    IN  [k \in 1..Len(scales) |-> <<scales[k], Mean(Times(At(scales[k])))>>]

\* max(0.0, 1.0 - (exponent - 1.0) / 2.0)
ScalabilityScore(exponent) ==
    LET v == RSub(RInt(1), RDiv(RSub(exponent, RInt(1)), RInt(2)))
    IN  IF RLt(RInt(0), v) THEN v ELSE RInt(0)

ScalabilityAnalysis(results, seed) ==
    LET succ == Successful(results)
        reasoner_names == SetOrder({succ[i].reasoner_name : i \in 1..Len(succ)}, seed)
        Entry(reasoner) ==
            LET scale_performance == ScalePerformance(results, reasoner)
                time_complexity == CalculateComplexityExponent(scale_performance)
                memory_complexity == CalculateComplexityExponent(<<>>)
                time_scalability == ScalabilityScore(time_complexity.exponent)
                memory_scalability == ScalabilityScore(memory_complexity.exponent)
            IN  [time_complexity |-> time_complexity,
                 memory_complexity |-> memory_complexity,
                 time_scalability_score |-> time_scalability,
                 memory_scalability_score |-> memory_scalability,
                 overall_scalability_score |->
                     RDiv(RAdd(time_scalability, memory_scalability), RInt(2)),
                 scale_vs_time |-> scale_performance,
                 scale_vs_memory |-> <<>>,
                 breakpoint_analysis |-> AnalyzeBreakpoints(scale_performance)]
    IN  [k \in 1..Len(reasoner_names) |->
            [key |-> reasoner_names[k], val |-> Entry(reasoner_names[k])]]

\* ValueError on math.log(0); ZeroDivisionError on a zero scale or time in the breakpoints
ScalabilityRaises(results) ==
    \E reasoner \in ReasonerNameSet(results) :
        LET sp == ScalePerformance(results, reasoner)
        IN  /\ Len(sp) >= 2
            /\ \E i \in 1..Len(sp) : sp[i][1] = 0 \/ sp[i][2] = RInt(0)

-----------------------------------------------------------------------------
(* _outlier_analysis *)

\* a fence that takes in its own bounds
OnOrBeyond(time, lower_bound, upper_bound) ==
    RLe(RInt(time), lower_bound) \/ RLe(upper_bound, RInt(time))

\* time < lower_bound or time > upper_bound
Beyond(time, lower_bound, upper_bound) ==
    RLt(RInt(time), lower_bound) \/ RLt(upper_bound, RInt(time))

OutlierEntry(successful_results) ==
    LET execution_times == Times(successful_results)
        n == Len(execution_times)
        q1 == Percentile(execution_times, 25)
        q3 == Percentile(execution_times, 75)
        iqr == RSub(q3, q1)
        lower_bound == RSub(q1, RMul(Rat(3, 2), iqr))
        upper_bound == RAdd(q3, RMul(Rat(3, 2), iqr))
        IsOutlier(i) == Beyond(execution_times[i], lower_bound, upper_bound)
        found == SelectSeq([i \in 1..n |-> i], IsOutlier)
        outliers ==
            [k \in 1..Len(found) |->
                [index |-> found[k] - 1,
                 execution_time_ms |-> execution_times[found[k]],
                 deviation_from_median |->
                     RAbs(RSub(RInt(execution_times[found[k]]), Median(execution_times))),
                 severity |->
                     IF \/ RLt(RInt(execution_times[found[k]]), RMul(lower_bound, Rat(1, 2)))
                        \/ RLt(RMul(upper_bound, Rat(3, 2)), RInt(execution_times[found[k]]))
                     THEN "mild" ELSE "moderate",
                 test_result |-> successful_results[found[k]]]]
    IN  [total_tests |-> n,
         outlier_count |-> Len(outliers),
         outlier_rate |-> Rat(Len(outliers) * 100, n),
         outliers |-> outliers,
         bounds |-> [lower_bound |-> lower_bound, upper_bound |-> upper_bound,
                     q1 |-> q1, q3 |-> q3, iqr |-> iqr]]

OutlierAnalysis(results) ==
    LET groups == SelectSeq(GroupResults(results),
                            LAMBDA g : Len(Successful(g.val)) >= MinOutlierSample)
    IN  [k \in 1..Len(groups) |->
            [key |-> StatsKey(groups[k].key[1], groups[k].key[2]),
             val |-> OutlierEntry(Successful(groups[k].val))]]

-----------------------------------------------------------------------------
(* Exceptions of the remaining components *)

\* _performance_profiling: statistics.stdev of a reasoner's successful times
ProfilingRaises(results, stdevRaises) ==
    \E g \in Range(GroupByReasoner(results)) :
        /\ Len(Successful(g.val)) > 1
        /\ HasNaN(Times(Successful(g.val)))
        /\ stdevRaises

\* _reliability_analysis: stdev / mean of an operation's successful times
ReliabilityRaises(results, stdevRaises) ==
    \E g \in Range(GroupResults(results)) :
        GroupStatsRaises(Times(Successful(g.val)), stdevRaises)

\* BenchmarkSuite.__post_init__ / _generate_statistical_summary: the suite can be built
SuiteConstructible(results, stdevRaises) ==
    \A g \in Range(GroupResults(results)) :
        ~GroupStatsRaises(Times(Successful(g.val)), stdevRaises)

-----------------------------------------------------------------------------
(* analyze_benchmark_suite *)

AnalysisRaises(results, stdevRaises) ==
    \/ BasicRaises(results, stdevRaises)
    \/ ComparativeRaises(results, stdevRaises)
    \/ ProfilingRaises(results, stdevRaises)
    \/ ReliabilityRaises(results, stdevRaises)
    \/ ScalabilityRaises(results)

AnalysisResults(results, lib, alpha, seed) ==
    [basic_statistics |-> BasicStatisticalAnalysis(results),
     comparative_analysis |-> ComparativeAnalysis(results, seed),
     significance_testing |-> SignificanceTesting(results, lib, alpha),
     scalability_analysis |-> ScalabilityAnalysis(results, seed),
     outlier_analysis |-> OutlierAnalysis(results)]

\* what a call gives back: the bundle, or the exception that came out of it
Returns(bundle) == [raised |-> FALSE, bundle |-> <<bundle>>]
Raises == [raised |-> TRUE, bundle |-> <<>>]

AnalyzeBenchmarkSuite(results, lib, alpha, seed, stdevRaises) ==
    IF AnalysisRaises(results, stdevRaises) THEN Raises
    ELSE Returns(AnalysisResults(results, lib, alpha, seed))

-----------------------------------------------------------------------------
(* The caller's records *)

Result(reasoner, operation, success, timeout, time) ==
    [reasoner_name |-> reasoner, test_operation |-> operation, success |-> success,
     timeout_occurred |-> timeout, execution_time_ms |-> time, triples_count |-> 0]

\* The records a caller appends: every kind of record for reasoner A, and successful
\* runs of B to compare it with.  The time of a failed run is read by no component.
ResultAlphabet ==
    {Result(r, "classification", TRUE, FALSE, t) : r \in Reasoners, t \in TimeValues}
    \cup {Result("A", "classification", TRUE, FALSE, NaN),
          Result("A", "classification", TRUE, TRUE, 1),
          Result("A", "classification", FALSE, FALSE, 1),
          Result("A", "consistency", TRUE, FALSE, 1)}

SmallAlphabet ==
    {Result(r, "classification", TRUE, FALSE, 1) : r \in Reasoners}
    \cup {Result("A", "classification", FALSE, FALSE, 1)}

-----------------------------------------------------------------------------
(* The memory profiler (memory_profiler.py) *)

MaxSessions == 2
MaxSamples == 2

\* what a platform reader returns, in MB: 0.0 when the process cannot be read
MemoryReadings == {0, 1, 2}

\* process_info.get('baseline_memory', 10.0) and .get('triples_processed', 1)
BaselineMemory == 10
TriplesProcessed == 1

\* CrossPlatformMemoryProfiler.__init__; lists holds the list objects by identity,
\* memory_data and a record's memory_timeline are references into it
NewProfiler ==
    [monitoring_active |-> FALSE,
     monitoring_thread |-> <<>>,
     memory_data |-> 1,
     lists |-> << <<>> >>,
     threads |-> <<>>,
     pc |-> "idle",
     memory_values |-> <<>>,
     consumed |-> <<>>]

\* the variables of the engine and of its harnesses
engineVars == <<test_results, returned, results_cache, scipy, hashSeed, significance_level,
                groupA, groupB, compared, calls, nanStdevRaises>>

\* start_monitoring: a fresh list, the flag, a new sampler thread
StartMonitoring ==
    /\ profiler.pc = "idle"
    /\ Len(profiler.threads) < MaxSessions
    /\ profiler' = [profiler EXCEPT
                      !.lists = Append(@, <<>>),
                      !.memory_data = Len(profiler.lists) + 1,
                      !.monitoring_active = TRUE,
                      !.threads = Append(@, [pc |-> "while", samples |-> 0]),
                      !.monitoring_thread = <<Len(profiler.threads) + 1>>,
                      !.pc = "monitoring"]
    /\ UNCHANGED engineVars

\* _monitor_memory, thread t: while self.monitoring_active
TestFlag(t) ==
    /\ profiler.threads[t].pc = "while"
    /\ profiler' = [profiler EXCEPT
                      !.threads[t].pc = IF profiler.monitoring_active THEN "sampling"
                                        ELSE "finished"]
    /\ UNCHANGED engineVars

\* _monitor_memory, thread t: read the memory, append (current_time, memory_mb) to
\* the list self.memory_data names now, sleep.  The readers swallow every exception,
\* so the except branch is never entered.
TakeSample(t, memory_mb) ==
    /\ profiler.threads[t].pc = "sampling"
    /\ Len(profiler.lists[profiler.memory_data]) < MaxSamples
    /\ profiler' = [profiler EXCEPT
                      !.lists[profiler.memory_data] =
                          Append(@, <<profiler.threads[t].samples + 1, memory_mb>>),
                      !.threads[t].samples = @ + 1,
                      !.threads[t].pc = "while"]
    /\ UNCHANGED engineVars

\* stop_monitoring: self.monitoring_active = False
ClearFlag ==
    /\ profiler.pc = "monitoring"
    /\ profiler' = [profiler EXCEPT !.monitoring_active = FALSE, !.pc = "join"]
    /\ UNCHANGED engineVars

\* stop_monitoring: self.monitoring_thread.join(timeout=5.0), the thread has ended
Join ==
    /\ profiler.pc = "join"
    /\ profiler.threads[profiler.monitoring_thread[1]].pc = "finished"
    /\ profiler' = [profiler EXCEPT !.pc = "calculate"]
    /\ UNCHANGED engineVars

\* stop_monitoring: the join gives up after 5 seconds, the thread is still running
JoinTimesOut ==
    /\ profiler.pc = "join"
    /\ profiler.threads[profiler.monitoring_thread[1]].pc # "finished"
    /\ profiler' = [profiler EXCEPT !.pc = "calculate"]
    /\ UNCHANGED engineVars

\* MemoryMetrics(0.0, 0.0, 0.0, 0.0, 0.0, 0, [], 0, 0.0): the timeline is a new list
EmptyMetrics(timeline) ==
    [peak_memory_mb |-> 0,
     average_memory_mb |-> RInt(0),
     final_memory_mb |-> 0,
     memory_efficiency |-> RInt(0),
     memory_overhead_percent |-> RInt(0),
     gc_collections |-> 0,
     memory_timeline |-> timeline,
     monitoring_duration |-> 0]

\* the record _calculate_metrics builds from memory_values; the timeline is the
\* list self.memory_data itself, the duration the time of its last sample
CalculateMetrics(memory_values, timeline, lists) ==
    LET average_memory_mb == Rat(SumSeq(memory_values), Len(memory_values))
    IN  [peak_memory_mb |-> MaxOf(memory_values),
         average_memory_mb |-> average_memory_mb,
         final_memory_mb |-> memory_values[Len(memory_values)],
         memory_efficiency |->
            IF RLt(RInt(0), average_memory_mb)
            THEN RDiv(RInt(TriplesProcessed), average_memory_mb) ELSE RInt(0),
         memory_overhead_percent |->
            RMul(RDiv(RSub(average_memory_mb, RInt(BaselineMemory)), RInt(BaselineMemory)),
                 RInt(100)),
         gc_collections |-> 0,
         memory_timeline |-> timeline,
         monitoring_duration |-> lists[timeline][Len(lists[timeline])][1]]

\* _calculate_metrics, lines 151-155: the empty record, or the values of the samples
\* collected so far
ReadValues ==
    /\ profiler.pc = "calculate"
    /\ profiler' =
          IF profiler.lists[profiler.memory_data] = <<>>
          THEN [profiler EXCEPT
                  !.lists = Append(@, <<>>),
                  !.consumed = Append(@, EmptyMetrics(Len(profiler.lists) + 1)),
                  !.pc = "idle"]
          ELSE [profiler EXCEPT
                  !.memory_values =
                      [i \in 1..Len(profiler.lists[profiler.memory_data]) |->
                          profiler.lists[profiler.memory_data][i][2]],
                  !.pc = "build"]
    /\ UNCHANGED engineVars

\* _calculate_metrics, lines 158-186, and the return of stop_monitoring
BuildMetrics ==
    /\ profiler.pc = "build"
    /\ profiler' = [profiler EXCEPT
                      !.consumed = Append(@, CalculateMetrics(profiler.memory_values,
                                                             profiler.memory_data,
                                                             profiler.lists)),
                      !.memory_values = <<>>,
                      !.pc = "idle"]
    /\ UNCHANGED engineVars

InitMonitor ==
    /\ test_results = <<>>
    /\ returned = [p \in Procs |-> <<>>]
    /\ results_cache = [p \in Procs |-> <<>>]
    /\ scipy = <<>>
    /\ hashSeed = [p \in Procs |-> <<>>]
    /\ nanStdevRaises = <<>>
    /\ significance_level = DefaultSignificanceLevel
    /\ groupA = <<>>
    /\ groupB = <<>>
    /\ compared = <<>>
    /\ calls = <<>>
    /\ profiler = NewProfiler

NextMonitor ==
    \/ StartMonitoring
    \/ \E t \in 1..Len(profiler.threads) : TestFlag(t)
    \/ \E t \in 1..Len(profiler.threads) : \E memory_mb \in MemoryReadings :
          TakeSample(t, memory_mb)
    \/ ClearFlag
    \/ Join
    \/ JoinTimesOut
    \/ ReadValues
    \/ BuildMetrics

SpecMonitor == InitMonitor /\ [][NextMonitor]_vars

-----------------------------------------------------------------------------
(* The engine *)

\* dict.setdefault(key, val): an entry already present is kept
PutIfAbsent(dict, key, val) ==
    IF \E i \in 1..Len(dict) : dict[i].key = key
    THEN dict
    ELSE Append(dict, [key |-> key, val |-> val])

\* dict[key] = val
Put(dict, key, val) ==
    IF \E i \in 1..Len(dict) : dict[i].key = key
    THEN [i \in 1..Len(dict) |-> IF dict[i].key = key THEN [key |-> key, val |-> val]
                                 ELSE dict[i]]
    ELSE Append(dict, [key |-> key, val |-> val])

\* the scipy calls _significance_testing may make on these results
Slots(results) == UNION {CallSlots(d[1], d[2]) : d \in TestedData(results)}

OutcomesOf(c) ==
    IF c.fn \in {"shapiro", "levene"}
    THEN {o \in Outcomes : o.raised \/ o.p \in AssumptionLevels}
    ELSE Outcomes

\* execution gets as far as _significance_testing
ReachesSignificanceTesting(results, stdevRaises) ==
    ~BasicRaises(results, stdevRaises) /\ ~ComparativeRaises(results, stdevRaises)

\* a list consumed destructively (results.pop(0))
ListAfterPop(results) == IF results = <<>> THEN results ELSE Tail(results)

\* what analyze_benchmark_suite leaves in the caller's list: no component assigns to
\* it or to a record of it
ListAfterAnalysis(results) == results

\* the bundle read back from the cache entry of the suite
HandedFromCache(analysis_results, cache) ==
    (CHOOSE e \in {cache[i] : i \in 1..Len(cache)} : e.key = SuiteName).val

\* what analyze_benchmark_suite hands back: its local analysis_results
Handed(analysis_results, cache) == analysis_results

Init ==
    /\ test_results = <<>>
    /\ returned = [p \in Procs |-> <<>>]
    /\ results_cache = [p \in Procs |-> <<>>]
    /\ scipy = <<>>
    /\ hashSeed = [p \in Procs |-> <<>>]
    /\ nanStdevRaises = <<>>
    /\ significance_level = DefaultSignificanceLevel
    /\ groupA = <<>>
    /\ groupB = <<>>
    /\ compared = <<>>
    /\ calls = <<>>
    /\ profiler = NewProfiler

\* the caller appends a record to the list it is building
AddResult(r) ==
    /\ Len(test_results) < MaxResults
    /\ \A p \in Procs : returned[p] = <<>>
    /\ test_results' = Append(test_results, r)
    /\ UNCHANGED <<returned, results_cache, scipy, hashSeed, significance_level,
                   groupA, groupB, compared, calls, nanStdevRaises, profiler>>

\* engine.analyze_benchmark_suite(BenchmarkSuite(SuiteName, test_results)) in process p
Analyze(p) ==
    \E tested \in {TestedData(test_results)} :
    \E slots \in {UNION {CallSlots(d[1], d[2]) : d \in tested}} :
    \E seed \in Seeds, stdevRaises \in BOOLEAN :
      /\ hashSeed[p] # <<>> => seed = hashSeed[p][1]
      /\ nanStdevRaises # <<>> => stdevRaises = nanStdevRaises[1]
      /\ SuiteConstructible(test_results, stdevRaises)
      /\ \E lib \in [slots -> Outcomes] :
           /\ \A c \in slots : lib[c] \in OutcomesOf(c)
           /\ \A c \in slots : c \in DOMAIN scipy => scipy[c] = lib[c]
           /\ \E made \in {UNION {CallsMade(d[1], d[2], lib) : d \in tested}} :
              \E out \in {AnalyzeBenchmarkSuite(test_results, lib, significance_level,
                                                seed, stdevRaises)} :
                /\ Admissible(lib, made, scipy)
                /\ hashSeed' = [hashSeed EXCEPT ![p] = <<seed>>]
                /\ nanStdevRaises' = <<stdevRaises>>
                /\ scipy' = IF ReachesSignificanceTesting(test_results, stdevRaises)
                            THEN Remember(lib, made, scipy) ELSE scipy
                /\ results_cache' =
                      IF out.raised THEN results_cache
                      ELSE [results_cache EXCEPT ![p] = Put(@, SuiteName, out.bundle[1])]
                /\ returned' =
                      [returned EXCEPT ![p] =
                          <<[input |-> test_results,
                             raised |-> out.raised,
                             bundle |-> IF out.raised THEN <<>>
                                        ELSE <<Handed(out.bundle[1], results_cache'[p])>>]>>]
                /\ test_results' = ListAfterAnalysis(test_results)
                /\ UNCHANGED <<significance_level, groupA, groupB, compared, calls, profiler>>

\* the first analysis a process runs
AnalyzeOnce(p) == returned[p] = <<>> /\ Analyze(p)

Next ==
    \/ \E r \in ResultAlphabet : AddResult(r)
    \/ AnalyzeOnce(1)

Spec == Init /\ [][Next]_vars

-----------------------------------------------------------------------------
(* Suites with two samples large enough to be tested (SpecSuite) *)

Samples(lo, hi) == UNION {[1..n -> TimeValues] : n \in lo..hi}

Block(reasoner, data) ==
    [i \in 1..Len(data) |-> Result(reasoner, "classification", TRUE, FALSE, data[i])]

\* the one process of these runs: its hash seed, on a 3.11 interpreter
SuiteSeed == <<"A", "B">>

InitSuite ==
    /\ \E a \in Samples(MinSampleSize, MaxGroup) : \E b \in Samples(MinSampleSize, MinSampleSize) :
       \E first \in Reasoners :
          test_results = IF first = "A" THEN Block("A", a) \o Block("B", b)
                         ELSE Block("B", b) \o Block("A", a)
    /\ returned = [p \in Procs |-> <<>>]
    /\ results_cache = [p \in Procs |-> <<>>]
    /\ scipy = <<>>
    /\ hashSeed = [p \in Procs |-> IF p = 1 THEN <<SuiteSeed>> ELSE <<>>]
    /\ nanStdevRaises = <<TRUE>>
    /\ significance_level = DefaultSignificanceLevel
    /\ groupA = <<>>
    /\ groupB = <<>>
    /\ compared = <<>>
    /\ calls = <<>>
    /\ profiler = NewProfiler

NextSuite == AnalyzeOnce(1)

SpecSuite == InitSuite /\ [][NextSuite]_vars

-----------------------------------------------------------------------------
(* Direct calls of _perform_statistical_test in both argument orders (SpecCompare) *)

Orders == {<<"A", "B">>, <<"B", "A">>}

InitCompare ==
    /\ groupA \in Samples(MinSampleSize, MaxGroup)
    /\ groupB \in Samples(MinSampleSize, MinSampleSize)
    /\ significance_level \in Alphas
    /\ compared = [k \in Orders |-> <<>>]
    /\ test_results = <<>>
    /\ returned = [p \in Procs |-> <<>>]
    /\ results_cache = [p \in Procs |-> <<>>]
    /\ scipy = <<>>
    /\ hashSeed = [p \in Procs |-> <<>>]
    /\ nanStdevRaises = <<>>
    /\ calls = <<>>
    /\ profiler = NewProfiler

DataOf(reasoner) == IF reasoner = "A" THEN groupA ELSE groupB

\* engine._perform_statistical_test(data of r1, data of r2, r1, r2, "classification")
Compare(r1, r2) ==
    \E lib \in [CallSlots(DataOf(r1), DataOf(r2)) -> Outcomes] :
        LET made == CallsMade(DataOf(r1), DataOf(r2), lib)
        IN  /\ compared[<<r1, r2>>] = <<>>
            /\ \A c \in DOMAIN lib : lib[c] \in OutcomesOf(c)
            /\ Admissible(lib, made, scipy)
            /\ scipy' = Remember(lib, made, scipy)
            /\ compared' = [compared EXCEPT ![<<r1, r2>>] =
                               <<PerformStatisticalTest(DataOf(r1), DataOf(r2), r1, r2,
                                                        "classification", lib,
                                                        significance_level)>>]
            /\ UNCHANGED <<test_results, returned, results_cache, hashSeed,
                           significance_level, groupA, groupB, calls, nanStdevRaises, profiler>>

NextCompare == Compare("A", "B") \/ Compare("B", "A")

SpecCompare == InitCompare /\ [][NextCompare]_vars

-----------------------------------------------------------------------------
(* Repeated analyses in two processes (SpecRepeat) *)

\* the caller appends a record between analyses
AppendResult(r) ==
    /\ Len(test_results) < MaxRepeat
    /\ test_results' = Append(test_results, r)
    /\ UNCHANGED <<returned, results_cache, scipy, hashSeed, significance_level,
                   groupA, groupB, compared, calls, nanStdevRaises, profiler>>

NextRepeat ==
    \/ \E r \in SmallAlphabet : AppendResult(r)
    \/ \E p \in Procs : Analyze(p)

SpecRepeat == Init /\ [][NextRepeat]_vars

-----------------------------------------------------------------------------
(* Threads calling one engine, each with its own snapshot (SpecConc) *)

Threads == {1, 2}

Snapshots == UNION {[1..n -> SmallAlphabet] : n \in 0..MaxSnapshot}

InitConc ==
    /\ calls \in [Threads -> {[snapshot |-> l, pc |-> "start", analysis_results |-> <<>>,
                               ret |-> <<>>] : l \in Snapshots}]
    /\ hashSeed \in {[p \in Procs |-> IF p = 1 THEN <<seed>> ELSE <<>>] : seed \in Seeds}
    /\ nanStdevRaises \in {<<TRUE>>, <<FALSE>>}
    /\ test_results = <<>>
    /\ returned = [p \in Procs |-> <<>>]
    /\ results_cache = [p \in Procs |-> <<>>]
    /\ scipy = <<>>
    /\ significance_level = DefaultSignificanceLevel
    /\ groupA = <<>>
    /\ groupB = <<>>
    /\ compared = <<>>
    /\ profiler = NewProfiler

\* lines 65-83: the nine components fill the local analysis_results; an exception
\* leaves the call at once.  Snapshots here are too small for a scipy call.
Compute(t) ==
    LET out == AnalyzeBenchmarkSuite(calls[t].snapshot, scipy, significance_level,
                                     hashSeed[1][1], nanStdevRaises[1])
    IN  /\ calls[t].pc = "start"
        /\ Slots(calls[t].snapshot) = {}
        /\ calls' = [calls EXCEPT ![t] =
                        IF out.raised
                        THEN [@ EXCEPT !.pc = "raised"]
                        ELSE [@ EXCEPT !.pc = "computed", !.analysis_results = out.bundle]]
        /\ UNCHANGED <<test_results, returned, results_cache, scipy, hashSeed,
                       significance_level, groupA, groupB, compared, nanStdevRaises, profiler>>

\* line 84: self.results_cache[suite.suite_name] = analysis_results
Store(t) ==
    /\ calls[t].pc = "computed"
    /\ results_cache' = [results_cache EXCEPT
                            ![1] = Put(@, SuiteName, calls[t].analysis_results[1])]
    /\ calls' = [calls EXCEPT ![t].pc = "stored"]
    /\ UNCHANGED <<test_results, returned, scipy, hashSeed, significance_level,
                   groupA, groupB, compared, nanStdevRaises, profiler>>

\* line 85: return analysis_results
Return(t) ==
    /\ calls[t].pc = "stored"
    /\ calls' = [calls EXCEPT ![t].pc = "returned",
                              ![t].ret = <<Handed(calls[t].analysis_results[1],
                                                  results_cache[1])>>]
    /\ UNCHANGED <<test_results, returned, results_cache, scipy, hashSeed,
                   significance_level, groupA, groupB, compared, nanStdevRaises, profiler>>

NextConc == \E t \in Threads : Compute(t) \/ Store(t) \/ Return(t)

SpecConc == InitConc /\ [][NextConc]_vars

-----------------------------------------------------------------------------
(* Properties of the sequential engine (Spec) *)

\* the processes whose call has come back
Done == {p \in Procs : returned[p] # <<>>}

\* the calls that have come back
Calls == {returned[p][1] : p \in Done}

Entries(dict) == {dict[i] : i \in 1..Len(dict)}

\* every entry of significance_testing, over all operations
Comparisons(bundle) ==
    UNION {Entries(e.val) : e \in Entries(bundle.significance_testing)}

\* the values, in input order, of the records of one key that satisfy P
ValuesWhere(results, reasoner, operation, P(_)) ==
    Times(SelectSeq(results, LAMBDA r : /\ r.reasoner_name = reasoner
                                        /\ r.test_operation = operation
                                        /\ P(r)))

IsSuccess(r) == r.success

IsSuccessNoTimeout(r) == r.success /\ ~r.timeout_occurred

\* C1: for every operation and every pair of systems that both have a group for it,
\* if either group has fewer than 3 successful observations the call raises nothing
\* and the comparisons hold an entry for the pair whose test_type is InsufficientData.
C1_SmallGroupsReportedInsufficient ==
    \A c \in Calls :
      \A op \in Operations : \A r1 \in Reasoners : \A r2 \in Reasoners \ {r1} :
        LET g1 == ValuesWhere(c.input, r1, op, IsSuccess)
            g2 == ValuesWhere(c.input, r2, op, IsSuccess)
        IN  (g1 # <<>> /\ g2 # <<>> /\ (Len(g1) < 3 \/ Len(g2) < 3)) =>
              /\ ~c.raised
              /\ \E e \in Comparisons(c.bundle[1]) :
                    /\ e.key \in {TestName(r1, r2, op), TestName(r2, r1, op)}
                    /\ e.val.test_type = "InsufficientData"

\* C2: analyze_benchmark_suite returns a bundle, without raising, for every
\* observation list, the empty list and the lists with no successful observation
\* included.
C2_EveryListGetsABundle ==
    \A c \in Calls : ~c.raised /\ c.bundle # <<>>

\* C5: a step in which a call of analyze_benchmark_suite comes back leaves the
\* suite's observation list, and every record in it, as it was.
C5_InputNotMutated ==
    [][(returned' # returned) => (test_results' = test_results)]_vars

\* C5 happens: an analysis of a full list, failed and timed-out records among them,
\* has come back with a bundle.
C5_Witness ==
    \E c \in Calls :
        /\ ~c.raised
        /\ Len(c.input) = MaxResults
        /\ \E i \in 1..Len(c.input) : ~c.input[i].success
        /\ test_results = c.input

\* the per-key statistics of basic_statistics, were the group of a key the values of
\* its records that satisfy P, keys in order of first appearance, empty groups dropped
GroupsWhere(results, P(_)) ==
    LET keys == SelectSeq(Dedup([i \in 1..Len(results) |-> GroupKey(results[i])]),
                          LAMBDA k : ValuesWhere(results, k[1], k[2], P) # <<>>)
    IN  [i \in 1..Len(keys) |->
            [key |-> StatsKey(keys[i][1], keys[i][2]),
             val |-> GroupStats(ValuesWhere(results, keys[i][1], keys[i][2], P))]]

\* the operations that have a record satisfying P, in order of first appearance
OperationsWhere(results, P(_)) ==
    Dedup([i \in 1..Len(SelectSeq(results, P)) |-> SelectSeq(results, P)[i].test_operation])

OperationKeys(bundle) ==
    [i \in 1..Len(bundle.significance_testing) |-> bundle.significance_testing[i].key]

WellFormed(results) == SelectSeq(results, LAMBDA r : r.execution_time_ms # NaN)

\* C7: a malformed observation is skipped: the call gives what it gives for the same
\* list with the malformed records removed, and does not fail where that does not.
C7_MalformedRecordsSkipped ==
    \A p \in Done :
        LET c == returned[p][1]
            clean == AnalyzeBenchmarkSuite(WellFormed(c.input), scipy, significance_level,
                                           hashSeed[p][1], nanStdevRaises[1])
        IN  [raised |-> c.raised, bundle |-> c.bundle] = clean

-----------------------------------------------------------------------------
(* Properties of repeated analyses (SpecRepeat) *)

\* C3: two analyses of identical observation lists, in the same process or in
\* another, after any earlier analyses, give identical output: the same outcome,
\* the same keys and the same order of every list in the bundle.
C3_SameInputSameOutput ==
    \A p \in Done : \A q \in Done :
        returned[p][1].input = returned[q][1].input => returned[p][1] = returned[q][1]

-----------------------------------------------------------------------------
(* Properties of concurrent calls (SpecConc) *)

\* what the call of thread t gives when it is the only call of the engine
Alone(t) ==
    AnalyzeBenchmarkSuite(calls[t].snapshot, scipy, significance_level,
                          hashSeed[1][1], nanStdevRaises[1])

\* C4: under every interleaving of the calls, a call that has come back has
\* returned the bundle, or raised the exception, it gives when run alone.
C4_ConcurrentCallsReturnAsAlone ==
    \A t \in Threads :
        /\ calls[t].pc = "returned" => ~Alone(t).raised /\ calls[t].ret = Alone(t).bundle
        /\ calls[t].pc = "raised" => Alone(t).raised

\* C4 happens: two calls on different snapshots have both returned, and the cache
\* entry one of them wrote was overwritten by the other before it returned or after.
C4_Witness ==
    \E t \in Threads : \E u \in Threads \ {t} :
        /\ calls[t].pc = "returned"
        /\ calls[u].pc = "returned"
        /\ calls[t].snapshot # calls[u].snapshot
        /\ results_cache[1][1].val # calls[t].ret[1]

-----------------------------------------------------------------------------
(* Properties of the comparisons of a suite (SpecSuite) *)

SpecTestTypes == {"TTest", "WelchTTest", "MannWhitneyU", "InsufficientData"}

\* the specification's name of a test_type of the engine
SpecNameOf(test_type) ==
    CASE test_type = "Independent t-test" -> "TTest"
      [] test_type = "Welch's t-test" -> "WelchTTest"
      [] test_type = "Mann-Whitney U test" -> "MannWhitneyU"
      [] OTHER -> test_type

\* a test routine of scipy has raised
TestRoutineRaised == \E c \in DOMAIN scipy : c.fn \in TestKinds /\ scipy[c].raised

C9_OneEntryPerOrderedPair ==
    \A c \in Calls : ~c.raised =>
        \A op \in Operations : \A r1 \in Reasoners : \A r2 \in Reasoners \ {r1} :
            (/\ ValuesWhere(c.input, r1, op, IsSuccess) # <<>>
             /\ ValuesWhere(c.input, r2, op, IsSuccess) # <<>>)
            => Cardinality({e \in Comparisons(c.bundle[1]) :
                               e.key = TestName(r1, r2, op)}) = 1

-----------------------------------------------------------------------------
(* Properties of a comparison and its converse (SpecCompare) *)

BothCompared == \A k \in Orders : compared[k] # <<>>

AvsB == compared[<<"A", "B">>][1]

BvsA == compared[<<"B", "A">>][1]

Significant(r) == r.p_value < r.significance_level

NegBound(b) == [b EXCEPT !.center = RNeg(@), !.side = -@]

\* the interval (-upper, -lower)
NegInterval(ci) == <<NegBound(ci[2]), NegBound(ci[1])>>

\* the mean difference of a comparison: the centre of its confidence interval
MeanDifference(r) == r.confidence_interval[1].center

\* C10 as stated: B vs A has the test type, the p_value and the verdict of A vs B,
\* a mean difference and an effect size of opposite sign, and the negated interval.
C10_ConverseNegatesEffectSize ==
    BothCompared =>
        /\ BvsA.test_type = AvsB.test_type
        /\ BvsA.p_value = AvsB.p_value
        /\ Significant(BvsA) = Significant(AvsB)
        /\ MeanDifference(BvsA) = RNeg(MeanDifference(AvsB))
        /\ BvsA.effect_size = RootNeg(AvsB.effect_size)
        /\ BvsA.confidence_interval = NegInterval(AvsB.confidence_interval)

\* C10 amended: B vs A has the test type, the p_value and the verdict of A vs B, the
\* opposite mean difference and the negated interval; its effect size is the opposite
\* one under the Mann-Whitney U test (rank-biserial) and the same non-negative one
\* under the two t-tests (Cohen's d is taken from the absolute mean difference).
C10_ConverseKeepsCohensD ==
    BothCompared =>
        /\ BvsA.test_type = AvsB.test_type
        /\ BvsA.p_value = AvsB.p_value
        /\ Significant(BvsA) = Significant(AvsB)
        /\ MeanDifference(BvsA) = RNeg(MeanDifference(AvsB))
        /\ BvsA.confidence_interval = NegInterval(AvsB.confidence_interval)
        /\ IF AvsB.test_type \in {"Independent t-test", "Welch's t-test"}
           THEN BvsA.effect_size = AvsB.effect_size /\ AvsB.effect_size.sgn >= 0
           ELSE BvsA.effect_size = RootNeg(AvsB.effect_size)

\* C10 happens: both orders were compared by a t-test, significantly, on samples
\* with different means and a non-zero Cohen's d.
C10_Witness ==
    /\ BothCompared
    /\ AvsB.test_type = "Independent t-test"
    /\ Significant(AvsB)
    /\ RSgn(MeanDifference(AvsB)) < 0
    /\ AvsB.effect_size.sgn = 1

-----------------------------------------------------------------------------
(* Properties of the thresholds (SpecCompare) *)

\* the three assumption checks of a comparison all gave a p-value
ChecksAnswered(data1, data2) ==
    /\ ~Outcome(scipy, ShapiroCall(data1)).raised
    /\ ~Outcome(scipy, ShapiroCall(data2)).raised
    /\ ~Outcome(scipy, LeveneCall(data1, data2)).raised

\* the test the specification selects when alpha is the threshold of both checks
TestTypeUnder(alpha, data1, data2) ==
    LET normal1 == Outcome(scipy, ShapiroCall(data1)).p > alpha
        normal2 == Outcome(scipy, ShapiroCall(data2)).p > alpha
        equal_variance == Outcome(scipy, LeveneCall(data1, data2)).p > alpha
    IN  IF normal1 /\ normal2
        THEN IF equal_variance THEN "Independent t-test" ELSE "Welch's t-test"
        ELSE "Mann-Whitney U test"

ReportedSignificant(r) == r.interpretation[1] # "No significant difference between"

\* C11: the configured significance_level is the threshold of all three decisions,
\* for every value of it: a group is normal iff its normality p-value exceeds it, two
\* groups have equal variance iff the variance p-value exceeds it (so the test chosen
\* is the one these two decisions select), and the difference is reported significant
\* iff the test's p-value is below it.
C11_AlphaIsTheSingleThreshold ==
    \A k \in Orders :
        (/\ compared[k] # <<>>
         /\ compared[k][1].test_type # "Error"
         /\ ChecksAnswered(DataOf(k[1]), DataOf(k[2])))
        => /\ compared[k][1].test_type
                = TestTypeUnder(significance_level, DataOf(k[1]), DataOf(k[2]))
           /\ ReportedSignificant(compared[k][1])
                <=> compared[k][1].p_value < significance_level

-----------------------------------------------------------------------------
(* The statistics of one group and the effect size of two (SpecGroups):     *)
(* the engine's per-group computations applied to every small sample,       *)
(* zero timings included.                                                   *)

GroupValues == {0, 1, 2}

GroupSamples == UNION {[1..n -> GroupValues] : n \in 1..MaxGroup}

Computations == {"basic", "cohens_d"}

InitGroups ==
    /\ groupA \in GroupSamples
    /\ groupB \in [1..MinSampleSize -> GroupValues]
    /\ compared = [k \in Computations |-> <<>>]
    /\ significance_level = DefaultSignificanceLevel
    /\ test_results = <<>>
    /\ returned = [p \in Procs |-> <<>>]
    /\ results_cache = [p \in Procs |-> <<>>]
    /\ scipy = <<>>
    /\ hashSeed = [p \in Procs |-> <<>>]
    /\ nanStdevRaises = <<>>
    /\ calls = <<>>
    /\ profiler = NewProfiler

Computed(k, out) ==
    /\ compared[k] = <<>>
    /\ compared' = [compared EXCEPT ![k] = <<out>>]
    /\ UNCHANGED <<test_results, returned, results_cache, scipy, hashSeed,
                   significance_level, groupA, groupB, calls, nanStdevRaises, profiler>>

\* the statistics _basic_statistical_analysis computes for the group groupA
ComputeGroupStats ==
    Computed("basic", IF GroupStatsRaises(groupA, TRUE) THEN Raises
                      ELSE Returns(GroupStats(groupA)))

\* _calculate_cohens_d(groupA, groupB), on samples of the size the engine tests
ComputeCohensD ==
    /\ Len(groupA) >= MinSampleSize
    /\ Computed("cohens_d", Returns(CalculateCohensD(groupA, groupB)))

NextGroups == ComputeGroupStats \/ ComputeCohensD

SpecGroups == InitGroups /\ [][NextGroups]_vars

Zero == Root(0, RInt(0))

Constant(xs) == Cardinality(Range(xs)) = 1

\* C12: degenerate input raises no division error: a group whose mean is 0 reports
\* cv 0 whatever its size, a group of one value reports stdev 0 and cv 0, and two
\* groups whose pooled standard deviation is 0 have effect size 0.
C12_DegenerateInputIsGuarded ==
    /\ compared["basic"] # <<>> =>
          /\ ~compared["basic"][1].raised
          /\ SumSeq(groupA) = 0 =>
                compared["basic"][1].bundle[1].coefficient_of_variation = Zero
          /\ Len(groupA) = 1 =>
                /\ compared["basic"][1].bundle[1].std_dev_ms = Zero
                /\ compared["basic"][1].bundle[1].coefficient_of_variation = Zero
    /\ compared["cohens_d"] # <<>> =>
          /\ ~compared["cohens_d"][1].raised
          /\ (Constant(groupA) /\ Constant(groupB)) =>
                compared["cohens_d"][1].bundle[1] = Zero

-----------------------------------------------------------------------------
(* Properties of the group summaries (Spec) *)

\* a <= b as Python compares floats: false when either is NaN
FloatLe(a, b) == a # RNaN /\ b # RNaN /\ RLe(a, b)

\* every group summary of the returned bundles
Summaries == UNION {Entries(c.bundle[1].basic_statistics.groups) : c \in {d \in Calls : ~d.raised}}

\* C13: the summary of every group of two or more values has stdev >= 0 and
\* q1 <= median <= q3, q1 and q3 being its 25th and 75th percentiles.
C13_SummaryIsOrdered ==
    \A g \in Summaries :
        g.val.count >= 2 =>
            /\ g.val.std_dev_ms.sq # RNaN /\ g.val.std_dev_ms.sgn >= 0
            /\ FloatLe(g.val.percentile_25, g.val.median_ms)
            /\ FloatLe(g.val.median_ms, g.val.percentile_75)

-----------------------------------------------------------------------------
(* _outlier_analysis on one group around the minimum outlier sample (SpecOutliers) *)

OutlierValues == {0, 1, 5}

ScenarioD == <<10, 11, 9, 12, 10, 500>>

OutlierSamples ==
    UNION {[1..n -> OutlierValues] : n \in (MinOutlierSample - 1)..MaxOutlierGroup}
    \cup {ScenarioD}

InitOutliers ==
    /\ \E xs \in OutlierSamples :
       \E prefix \in {<<>>, <<Result("A", "classification", FALSE, FALSE, 1)>>} :
          test_results = prefix \o Block("A", xs)
    /\ compared = [k \in {"outlier"} |-> <<>>]
    /\ groupA = <<>>
    /\ groupB = <<>>
    /\ significance_level = DefaultSignificanceLevel
    /\ returned = [p \in Procs |-> <<>>]
    /\ results_cache = [p \in Procs |-> <<>>]
    /\ scipy = <<>>
    /\ hashSeed = [p \in Procs |-> <<>>]
    /\ nanStdevRaises = <<>>
    /\ calls = <<>>
    /\ profiler = NewProfiler

\* engine._outlier_analysis(suite)
DetectOutliers == Computed("outlier", OutlierAnalysis(test_results))

NextOutliers == DetectOutliers

SpecOutliers == InitOutliers /\ [][NextOutliers]_vars

\* the group of A: its successful timings in input order
GroupOfA == ValuesWhere(test_results, "A", "classification", IsSuccessNoTimeout)

\* the positions (from 0) strictly outside the fences of the group's own quartiles
OutsideFences(xs) ==
    LET q1 == Percentile(xs, 25)
        q3 == Percentile(xs, 75)
        lower == RSub(q1, RMul(Rat(3, 2), RSub(q3, q1)))
        upper == RAdd(q3, RMul(Rat(3, 2), RSub(q3, q1)))
    IN  {i - 1 : i \in {j \in 1..Len(xs) : RLt(RInt(xs[j]), lower) \/ RLt(upper, RInt(xs[j]))}}

\* the values of the group that lie exactly on a reported fence
OnFence(xs, bounds) ==
    {i - 1 : i \in {j \in 1..Len(xs) : RInt(xs[j]) \in {bounds.lower_bound, bounds.upper_bound}}}

Listed(report) == {report.outliers[k].index : k \in 1..Len(report.outliers)}

\* C14: for a group of 4 or more values the report lists exactly the positions whose
\* value is strictly below q1 - 1.5*iqr or strictly above q3 + 1.5*iqr, each once, with
\* the position and the value the group has there; a value equal to a bound is not
\* listed.
C14_OutliersAreStrictlyOutside ==
    (compared["outlier"] # <<>> /\ Len(GroupOfA) >= 4) =>
        /\ Len(compared["outlier"][1]) = 1
        /\ LET report == compared["outlier"][1][1].val
           IN  /\ Listed(report) = OutsideFences(GroupOfA)
               /\ Len(report.outliers) = Cardinality(Listed(report))
               /\ \A k \in 1..Len(report.outliers) :
                     report.outliers[k].execution_time_ms
                        = GroupOfA[report.outliers[k].index + 1]
               /\ OnFence(GroupOfA, report.bounds) \cap Listed(report) = {}

\* C14 happens: the report of a group lists an outlier and leaves out a value that
\* lies exactly on a fence.
C14_Witness ==
    /\ compared["outlier"] # <<>>
    /\ Len(GroupOfA) >= 4
    /\ Len(compared["outlier"][1]) = 1
    /\ Listed(compared["outlier"][1][1].val) # {}
    /\ OnFence(GroupOfA, compared["outlier"][1][1].val.bounds) # {}

\* the report on the sample of scenario D has been computed
ScenarioDReported ==
    /\ GroupOfA = ScenarioD
    /\ compared["outlier"] # <<>>
    /\ Len(compared["outlier"][1]) = 1

ScenarioDReport == compared["outlier"][1][1].val

\* only the 500 is listed
Flags500Only ==
    /\ Len(ScenarioDReport.outliers) = 1
    /\ ScenarioDReport.outliers[1].execution_time_ms = 500
    /\ ScenarioDReport.outliers[1].index = 5

\* the fences of the quartiles q1 and q3
FencesOf(q1, q3) ==
    [q1 |-> q1, q3 |-> q3, iqr |-> RSub(q3, q1),
     lower_bound |-> RSub(q1, RMul(Rat(3, 2), RSub(q3, q1))),
     upper_bound |-> RAdd(q3, RMul(Rat(3, 2), RSub(q3, q1)))]

\* the sample of scenario D without its largest value
OtherFive == SubSeq(ScenarioD, 1, 5)

\* C15 as stated: for the group [10, 11, 9, 12, 10, 500] only 500 is flagged, and the
\* reported q1, q3 and bounds are those of the quartiles of the other five values
\* [10, 11, 9, 12, 10]: q1 = 10, q3 = 11, bounds 8.5 and 12.5.
C15_BoundsFromTheOtherFive ==
    ScenarioDReported =>
        /\ Flags500Only
        /\ ScenarioDReport.bounds = FencesOf(Percentile(OtherFive, 25), Percentile(OtherFive, 75))

\* C15 amended: for the group [10, 11, 9, 12, 10, 500] only 500 is flagged, and the
\* reported q1, q3 and bounds are those of the quartiles of all six values, the 500
\* included: q1 = 10, q3 = 11.75, iqr = 1.75, bounds 7.375 and 14.375.
C15_BoundsFromAllSix ==
    ScenarioDReported =>
        /\ Flags500Only
        /\ ScenarioDReport.bounds = FencesOf(RInt(10), Rat(47, 4))
        /\ ScenarioDReport.bounds.lower_bound = Rat(59, 8)
        /\ ScenarioDReport.bounds.upper_bound = Rat(115, 8)

\* C15 happens: the sample of scenario D, after a failed observation of the same
\* system, has been reported on with one outlier.
C15_Witness ==
    /\ ScenarioDReported
    /\ Len(test_results) = Len(ScenarioD) + 1
    /\ ScenarioDReport.outlier_count = 1

-----------------------------------------------------------------------------
(* _scalability_analysis on suites that measure one system once per ontology *)
(* size (SpecScale).  Sizes and timings are 0 or powers of ten, so that the  *)
(* logarithms of the regression are exact.                                   *)

ScaleValues == {0, 1, 10, 100}

ScaleTimes == {0, 10, 100, 1000}

\* a successful run on an ontology of triples_count triples
ScaledResult(reasoner, triples_count, time) ==
    [Result(reasoner, "classification", TRUE, FALSE, time)
        EXCEPT !.triples_count = triples_count]

\* n different ontology sizes, in the order they were run
ScaleOrders(n) ==
    {s \in [1..n -> ScaleValues] : \A i \in 1..n : \A j \in 1..n : s[i] = s[j] => i = j}

ScaleSuites ==
    UNION {{[i \in 1..n |-> ScaledResult("A", s[i], t[i])] :
               s \in ScaleOrders(n), t \in [1..n -> ScaleTimes]} : n \in 1..MaxScalePoints}

InitScale ==
    /\ test_results \in ScaleSuites
    /\ compared = [k \in {"scalability"} |-> <<>>]
    /\ groupA = <<>>
    /\ groupB = <<>>
    /\ significance_level = DefaultSignificanceLevel
    /\ returned = [p \in Procs |-> <<>>]
    /\ results_cache = [p \in Procs |-> <<>>]
    /\ scipy = <<>>
    /\ hashSeed = [p \in Procs |-> IF p = 1 THEN <<SuiteSeed>> ELSE <<>>]
    /\ nanStdevRaises = <<>>
    /\ calls = <<>>
    /\ profiler = NewProfiler

\* engine._scalability_analysis(suite)
AnalyzeScalability ==
    Computed("scalability",
             IF ScalabilityRaises(test_results) THEN Raises
             ELSE Returns(ScalabilityAnalysis(test_results, hashSeed[1][1])))

NextScale == AnalyzeScalability

SpecScale == InitScale /\ [][NextScale]_vars

\* the (scale, metric) points of the suite with scale > 0 and metric > 0
UsablePoints ==
    LET usable == SelectSeq(test_results,
                      LAMBDA r : r.triples_count > 0 /\ r.execution_time_ms > 0)
    IN  [i \in 1..Len(usable) |-> <<usable[i].triples_count, RInt(usable[i].execution_time_ms)>>]

ScalabilityDone == compared["scalability"] # <<>>

\* the time ComplexityProfile reported for system A
ProfileOfA == compared["scalability"][1].bundle[1][1].val.time_complexity

\* C16: the fit uses only the points with scale > 0 and metric > 0; a system left with
\* fewer than 2 usable scale points (observations of scale 0, the default
\* triples_count, included) has exactly the profile {exponent 1.0, r_squared 0.0}, and
\* no exception is raised.
C16_FitUsesPositivePointsOnly ==
    ScalabilityDone =>
        /\ ~compared["scalability"][1].raised
        /\ ProfileOfA = CalculateComplexityExponent(UsablePoints)
        /\ Len(UsablePoints) < 2 => ProfileOfA = DefaultComplexity

\* every observation of the suite has a positive scale and a positive timing
AllUsable == Len(UsablePoints) = Len(test_results)

\* the points of the suite lie on value = a * scale^b for some a
OnPowerLaw(b) ==
    \A i \in 1..Len(test_results) : \A j \in 1..Len(test_results) :
        Log10(test_results[i].execution_time_ms) - Log10(test_results[j].execution_time_ms)
          = b * (Log10(test_results[i].triples_count) - Log10(test_results[j].triples_count))

Exponents == 0..3

\* C17: when the points of a system lie exactly on a power law value = a * scale^b,
\* with at least 2 distinct scales, the fitted exponent is b and r_squared is 1; so
\* scale = [1, 10, 100], value = [10, 100, 1000] gives exponent 1 and r_squared 1.
C17_PowerLawIsRecovered ==
    \A b \in Exponents :
        (ScalabilityDone /\ AllUsable /\ Len(test_results) >= 2 /\ OnPowerLaw(b))
        => /\ ~compared["scalability"][1].raised
           /\ ProfileOfA = [exponent |-> RInt(b), r_squared |-> RInt(1)]


-----------------------------------------------------------------------------
(* Rankings and performance profiles.  The records of the model carry no    *)
(* memory_metrics, so every memory score is the 0.0 the code falls back to. *)

RMean(s) == RDiv(RSum(s), RInt(Len(s)))

\* statistical_summary['performance_by_reasoner']: a key for every reasoner with a
\* record, in order of first appearance; an operation entry only for a group with
\* successful results
PerformanceByReasoner(results) ==
    LET groups == GroupResults(results)
        names == Dedup([k \in 1..Len(groups) |-> groups[k].key[1]])
        OfReasoner(reasoner) ==
            SelectSeq(groups, LAMBDA g : g.key[1] = reasoner /\ Successful(g.val) # <<>>)
    IN  [n \in 1..Len(names) |->
            [key |-> names[n],
             val |-> [k \in 1..Len(OfReasoner(names[n])) |->
                        [key |-> OfReasoner(names[n])[k].key[2],
                         val |-> [mean_time_ms |->
                                    Mean(Times(Successful(OfReasoner(names[n])[k].val)))]]]]]

\* successful_tests / total_tests of a reasoner, counted on success alone
SuccessRate(results, reasoner) ==
    LET reasoner_results == SelectSeq(results, LAMBDA r : r.reasoner_name = reasoner)
    IN  Rat(Len(SuccessfulOnly(reasoner_results)), Len(reasoner_results))

\* BenchmarkSuite.generate_performance_scores
GeneratePerformanceScores(results) ==
    LET by_reasoner == PerformanceByReasoner(results)
        TimeScores(operations) ==
            [k \in 1..Len(operations) |->
                RDiv(RInt(1000), RAdd(operations[k].val.mean_time_ms, RInt(1)))]
        PerformanceScore(operations) ==
            IF operations = <<>> THEN RInt(0) ELSE RMean(TimeScores(operations))
    IN  [n \in 1..Len(by_reasoner) |->
            [key |-> by_reasoner[n].key,
             val |-> RAdd(RAdd(RMul(PerformanceScore(by_reasoner[n].val), Rat(4, 10)),
                               RMul(RInt(0), Rat(3, 10))),
                          RMul(SuccessRate(results, by_reasoner[n].key), Rat(3, 10)))]]

\* _analyze_efficiency: overall_efficiency
AnalyzeEfficiency(results) ==
    LET by_reasoner == PerformanceByReasoner(results)
        ThroughputScores(operations) ==
            [k \in 1..Len(operations) |-> RDiv(RInt(1000), operations[k].val.mean_time_ms)]
        Throughput(operations) ==
            IF operations = <<>> THEN RInt(0) ELSE RMean(ThroughputScores(operations))
    IN  [n \in 1..Len(by_reasoner) |->
            [key |-> by_reasoner[n].key,
             val |-> RAdd(RMul(RInt(0), Rat(1, 2)),
                          RMul(Throughput(by_reasoner[n].val), Rat(1, 2)))]]

\* ZeroDivisionError on 1000.0 / mean_time_ms
AnalyzeEfficiencyRaises(results) ==
    \E g \in Range(GroupResults(results)) :
        /\ Successful(g.val) # <<>>
        /\ Mean(Times(Successful(g.val))) = RInt(0)

\* _analyze_reliability: success_rate
AnalyzeReliability(results) ==
    LET by_reasoner == PerformanceByReasoner(results)
    IN  [n \in 1..Len(by_reasoner) |->
            [key |-> by_reasoner[n].key,
             val |-> SuccessRate(results, by_reasoner[n].key)]]

\* list.sort on items compared by their score: the initial run (reversed when strictly
\* descending), then binary insertion, every comparison a float <, false on NaN
RECURSIVE ExtendRunBy(_, _, _)
ExtendRunBy(items, n, descending) ==
    IF n >= Len(items) THEN n
    ELSE IF RLt(items[n + 1].val, items[n].val) = descending
    THEN ExtendRunBy(items, n + 1, descending)
    ELSE n

RECURSIVE BinPosBy(_, _, _, _)
BinPosBy(s, pivot, l, r) ==
    IF l >= r THEN l
    ELSE LET p == l + ((r - l) \div 2)
         IN  IF RLt(pivot.val, s[p].val) THEN BinPosBy(s, pivot, l, p)
             ELSE BinPosBy(s, pivot, p + 1, r)

RECURSIVE InsertAllBy(_, _)
InsertAllBy(prefix, rest) ==
    IF rest = <<>> THEN prefix
    ELSE LET pos == BinPosBy(prefix, rest[1], 1, Len(prefix) + 1)
         IN  InsertAllBy(SubSeq(prefix, 1, pos - 1) \o <<rest[1]>>
                            \o SubSeq(prefix, pos, Len(prefix)),
                         Tail(rest))

AscendingByScore(items) ==
    LET descending == Len(items) >= 2 /\ RLt(items[2].val, items[1].val)
        n == IF Len(items) < 2 THEN Len(items) ELSE ExtendRunBy(items, 2, descending)
        run == SubSeq(items, 1, n)
    IN  InsertAllBy(IF descending THEN Reverse(run) ELSE run,
                    SubSeq(items, n + 1, Len(items)))

\* sorted(items, key=score, reverse=True): the list is reversed, sorted and reversed
\* again, so that items of equal score keep the order they had in items
SortedByScore(items) == Reverse(AscendingByScore(Reverse(items)))

\* the rankings of _perform_comparative_analysis, as _comparative_analysis hands them on
Rankings(results) ==
    LET performance_scores == GeneratePerformanceScores(results)
        efficiency_analysis == AnalyzeEfficiency(results)
        reliability_analysis == AnalyzeReliability(results)
        overall_scores ==
            [n \in 1..Len(performance_scores) |->
                [key |-> performance_scores[n].key,
                 val |-> RAdd(RAdd(RMul(performance_scores[n].val, Rat(4, 10)),
                                   RMul(efficiency_analysis[n].val, Rat(3, 10))),
                              RMul(reliability_analysis[n].val, Rat(3, 10)))]]
    IN  [overall_ranking |-> SortedByScore(overall_scores),
         performance_ranking |-> SortedByScore(performance_scores),
         efficiency_ranking |-> SortedByScore(efficiency_analysis),
         reliability_ranking |-> SortedByScore(reliability_analysis)]

\* _comparative_analysis raises: the suite's summary is missing, a throughput divides
\* by zero, or one of the pairwise components raises
RankingsRaise(results, stdevRaises) ==
    \/ results = <<>>
    \/ AnalyzeEfficiencyRaises(results)
    \/ ComparativeRaises(results, stdevRaises)

\* _performance_profiling: a profile for every reasoner with a successful result
PerformanceProfiling(results) ==
    LET reasoner_data ==
            SelectSeq(GroupByReasoner(results), LAMBDA g : Successful(g.val) # <<>>)
        Profile(g) ==
            LET execution_times == Times(Successful(g.val))
                mean_perf == Mean(execution_times)
                reliability_score == Rat(Len(Successful(g.val)), Len(g.val))
            IN  [key |-> g.key,
                 mean_performance |-> mean_perf,
                 median_performance |-> Median(execution_times),
                 std_deviation |-> IF Len(execution_times) > 1 THEN Stdev(execution_times)
                                   ELSE Root(0, RInt(0)),
                 performance_range |-> <<MinOf(execution_times), MaxOf(execution_times)>>,
                 reliability_score |-> reliability_score,
                 efficiency_score |-> RInt(0),
                 val |-> RAdd(RAdd(RMul(RDiv(RInt(1), RAdd(mean_perf, RInt(1))), Rat(4, 10)),
                                   RMul(RInt(0), Rat(3, 10))),
                              RMul(reliability_score, Rat(3, 10)))]
        profiles == [n \in 1..Len(reasoner_data) |-> Profile(reasoner_data[n])]
        ranked_profiles == SortedByScore(profiles)
        RankOf(reasoner) == CHOOSE k \in 1..Len(ranked_profiles) : ranked_profiles[k].key = reasoner
    IN  [n \in 1..Len(profiles) |->
            [key |-> profiles[n].key,
             val |-> [reasoner_name |-> profiles[n].key,
                      mean_performance |-> profiles[n].mean_performance,
                      median_performance |-> profiles[n].median_performance,
                      std_deviation |-> profiles[n].std_deviation,
                      performance_range |-> profiles[n].performance_range,
                      reliability_score |-> profiles[n].reliability_score,
                      efficiency_score |-> profiles[n].efficiency_score,
                      overall_score |-> profiles[n].val,
                      rank |-> RankOf(profiles[n].key)]]]

\* _reliability_analysis: the outcome rates of every reasoner with a record
ReliabilityAnalysis(results) ==
    LET reasoner_groups == GroupByReasoner(results)
        Rates(group) ==
            LET total_tests == Len(group)
                successful_tests == Len(SelectSeq(group, LAMBDA r : r.success))
                timeout_tests == Len(SelectSeq(group, LAMBDA r : r.timeout_occurred))
                error_tests ==
                    Len(SelectSeq(group, LAMBDA r : ~r.success /\ ~r.timeout_occurred))
            IN  [success_rate |-> Rat(successful_tests, total_tests),
                 timeout_rate |-> Rat(timeout_tests, total_tests),
                 error_rate |-> Rat(error_tests, total_tests),
                 test_coverage |->
                     Cardinality({group[i].test_operation : i \in 1..Len(group)})]
    IN  [n \in 1..Len(reasoner_groups) |->
            [key |-> reasoner_groups[n].key, val |-> Rates(reasoner_groups[n].val)]]

-----------------------------------------------------------------------------
(* Ranking as a function of the suite (SpecRanking): short suites of three  *)
(* systems, with successful, failed and timed-out runs, a zero timing and a *)
(* timing that is not a number.                                             *)

MaxRanked == 3

RankedNames == {"A", "B", "C"}
RankedTimes == {0, 1, 2}

RankedAlphabet ==
    {Result(r, "classification", TRUE, FALSE, t) : r \in RankedNames, t \in RankedTimes}
    \cup {Result(r, "classification", FALSE, FALSE, 1) : r \in RankedNames}
    \cup {Result("A", "classification", TRUE, TRUE, 1),
          Result("A", "classification", FALSE, TRUE, 1),
          Result("B", "classification", TRUE, FALSE, NaN)}

InitRanking ==
    /\ test_results \in UNION {[1..n -> RankedAlphabet] : n \in 1..MaxRanked}
    /\ compared = [k \in {"comparative", "profiles", "reliability"} |-> <<>>]
    /\ significance_level = DefaultSignificanceLevel
    /\ groupA = <<>>
    /\ groupB = <<>>
    /\ returned = [p \in Procs |-> <<>>]
    /\ results_cache = [p \in Procs |-> <<>>]
    /\ scipy = <<>>
    /\ hashSeed = [p \in Procs |-> <<>>]
    /\ nanStdevRaises = <<>>
    /\ calls = <<>>
    /\ profiler = NewProfiler

\* the suite is constructed, then _comparative_analysis(suite)
CompareRankings ==
    Computed("comparative",
             IF ~SuiteConstructible(test_results, TRUE) \/ RankingsRaise(test_results, TRUE)
             THEN Raises ELSE Returns(Rankings(test_results)))

\* the suite is constructed, then _performance_profiling(suite)
ProfilePerformance ==
    Computed("profiles",
             IF ~SuiteConstructible(test_results, TRUE) \/ ProfilingRaises(test_results, TRUE)
             THEN Raises ELSE Returns(PerformanceProfiling(test_results)))

\* the suite is constructed, then _reliability_analysis(suite)
AnalyzeReliabilityOfSuite ==
    Computed("reliability",
             IF ~SuiteConstructible(test_results, TRUE) \/ ReliabilityRaises(test_results, TRUE)
             THEN Raises ELSE Returns(ReliabilityAnalysis(test_results)))

NextRanking == CompareRankings \/ ProfilePerformance \/ AnalyzeReliabilityOfSuite

SpecRanking == InitRanking /\ [][NextRanking]_vars


-----------------------------------------------------------------------------
(* Order of equal scores *)

NameOrder == <<"A", "B", "C">>

\* a sorts before b as a string
NameBefore(a, b) ==
    \E i, j \in 1..Len(NameOrder) : i < j /\ NameOrder[i] = a /\ NameOrder[j] = b

\* in a ranking, entries of equal score stand in ascending order of name
TiesByName(ranking) ==
    \A i, j \in 1..Len(ranking) :
        i < j /\ ranking[i].val = ranking[j].val
            => NameBefore(ranking[i].key, ranking[j].key)

RankingsOf(bundle) ==
    {bundle.overall_ranking, bundle.performance_ranking,
     bundle.efficiency_ranking, bundle.reliability_ranking}

KeysOf(dict) == [i \in 1..Len(dict) |-> dict[i].key]

RankingsDone == compared["comparative"] # <<>> /\ ~compared["comparative"][1].raised

ProfilesDone == compared["profiles"] # <<>> /\ ~compared["profiles"][1].raised

\* C18: in every ranking the engine produces (the four rankings of the comparative
\* analysis and the ranks of the performance profiles), systems of equal score stand
\* in ascending order of system name, whatever the input order (B and A
\* of equal score above C rank as A, B, C).
C18_TiesOrderedByName ==
    /\ RankingsDone =>
          \A ranking \in RankingsOf(compared["comparative"][1].bundle[1]) :
              TiesByName(ranking)
    /\ ProfilesDone =>
          LET profiles == compared["profiles"][1].bundle[1]
          IN  \A i, j \in 1..Len(profiles) :
                  /\ profiles[i].val.overall_score = profiles[j].val.overall_score
                  /\ NameBefore(profiles[i].key, profiles[j].key)
                  => profiles[i].val.rank < profiles[j].val.rank


-----------------------------------------------------------------------------
(* Who is ranked *)

\* the systems with at least one observation, successful or not
ObservedSystems == {test_results[i].reasoner_name : i \in 1..Len(test_results)}

NoSuccess(reasoner) ==
    \A i \in 1..Len(test_results) :
        test_results[i].reasoner_name = reasoner => ~test_results[i].success

\* every observed system stands exactly once in the ranking
RanksAll(ranking) == \A s \in ObservedSystems : Count(KeysOf(ranking), s) = 1

AllRanked ==
    LET bundle == compared["comparative"][1].bundle[1]
    IN  /\ \A ranking \in RankingsOf(bundle) : RanksAll(ranking)
        /\ \A i \in 1..Len(bundle.reliability_ranking) :
               NoSuccess(bundle.reliability_ranking[i].key)
                   => bundle.reliability_ranking[i].val = RInt(0)

\* C19: every system with at least one observation, successful or not, appears
\* exactly once in each of the performance, efficiency, reliability and overall
\* rankings and in the performance profiles; a system without a successful
\* observation is ranked, with reliability 0, and not omitted.
C19_EverySystemRankedAndProfiled ==
    /\ RankingsDone => AllRanked
    /\ ProfilesDone => RanksAll(compared["profiles"][1].bundle[1])


-----------------------------------------------------------------------------
(* Summary counts *)

\* BenchmarkSuite._generate_statistical_summary: the counts of the suite's own summary
StatisticalSummary(results) ==
    [total_tests |-> Len(results),
     successful_tests |-> Len(SelectSeq(results, LAMBDA r : r.success)),
     failed_tests |-> Len(SelectSeq(results, LAMBDA r : ~r.success)),
     timeout_tests |-> Len(SelectSeq(results, LAMBDA r : r.timeout_occurred))]

\* the counts of a summary agree with the list it was computed from
CountsMatch(summary, results) ==
    /\ summary.total_tests = Len(results)
    /\ summary.successful_tests = Cardinality({i \in 1..Len(results) : results[i].success})
    /\ summary.successful_tests + summary.failed_tests = summary.total_tests
    /\ Len(results) = 1 /\ results[1].success
          => /\ summary.total_tests = 1
             /\ Rat(summary.successful_tests, summary.total_tests) = RInt(1)

\* C20: for every non-empty suite the summary counts agree with the observation
\* list: total_tests is the number of observations, successful_tests the number of
\* those with success == true, and successful_tests + failed_tests = total_tests, in
\* the summary of the suite and in the summary of the analysis; a suite of one
\* successful observation has total 1 and successful_tests / total_tests = 1.0.
C20_SummaryCountsMatchTheList ==
    \A c \in Calls : c.input # <<>> =>
        /\ CountsMatch(StatisticalSummary(c.input), c.input)
        /\ ~c.raised => CountsMatch(c.bundle[1].basic_statistics.summary, c.input)

\* C20 happens: an analysed suite holds a failed observation, a successful one and
\* a success that timed out, and its summary counts one failure and two successes.
C20_Witness ==
    \E c \in Calls :
        /\ ~c.raised
        /\ \E i, j, k \in 1..Len(c.input) :
              /\ ~c.input[i].success
              /\ IsSuccessNoTimeout(c.input[j])
              /\ c.input[k].success /\ c.input[k].timeout_occurred
        /\ c.bundle[1].basic_statistics.summary.failed_tests = 1
        /\ c.bundle[1].basic_statistics.summary.successful_tests = 2


-----------------------------------------------------------------------------
(* Selection of the test (SpecCompare) *)

\* the outputs of the assumption checks of a comparison, as the routines answered
BothNormal(k) ==
    CheckNormality(DataOf(k[1]), scipy) /\ CheckNormality(DataOf(k[2]), scipy)

EqualVariance(k) == CheckEqualVariance(DataOf(k[1]), DataOf(k[2]), scipy)

\* the test the table of the checks selects
SelectedBy(normal, equal_variance) ==
    IF normal THEN IF equal_variance THEN "Independent t-test" ELSE "Welch's t-test"
    ELSE "Mann-Whitney U test"

\* the effect size that goes with a test
EffectSizeOf(k, test_type, statistic) ==
    IF test_type = "Mann-Whitney U test"
    THEN CalculateRankBiserial(DataOf(k[1]), DataOf(k[2]), statistic)
    ELSE CalculateCohensD(DataOf(k[1]), DataOf(k[2]))

-----------------------------------------------------------------------------
(* Interpretation of a comparison (SpecCompare) *)

SaysSignificant(r) == Len(r.interpretation) > 1 /\ r.interpretation[2] = "is significantly"

\* the word the interpretation of a significant result uses for the first system
Direction(r) == r.interpretation[3]

\* C22: the interpretation of a comparison reports a significant difference iff
\* p_value < significance_level, strictly; when it does, it says the first system is
\* faster iff mean(A) < mean(B) and slower iff mean(A) > mean(B).
C22_InterpretationFollowsTheMeans ==
    \A k \in Orders : compared[k] # <<>> =>
        LET r == compared[k][1]
            meanA == Mean(DataOf(k[1]))
            meanB == Mean(DataOf(k[2]))
        IN  /\ SaysSignificant(r) <=> r.p_value < r.significance_level
            /\ SaysSignificant(r) =>
                  /\ Direction(r) = "faster" <=> RLt(meanA, meanB)
                  /\ Direction(r) = "slower" <=> RLt(meanB, meanA)


-----------------------------------------------------------------------------
(* Severity of an outlier (SpecOutliers) *)

\* the value lies within 0.5x to 1.5x of the bound it violates
NearItsBound(value, bounds) ==
    IF RLt(bounds.upper_bound, value)
    THEN ~RLt(RMul(bounds.upper_bound, Rat(3, 2)), value)
    ELSE ~RLt(value, RMul(bounds.lower_bound, Rat(1, 2)))

OutlierReports ==
    IF compared["outlier"] = <<>> THEN {}
    ELSE {compared["outlier"][1][k].val : k \in 1..Len(compared["outlier"][1])}

\* C23: every reported outlier has severity mild when its value lies within 0.5x to
\* 1.5x of the bound it violates, and severity moderate when it lies beyond that.
C23_SeverityGrowsWithDistance ==
    \A report \in OutlierReports : \A k \in 1..Len(report.outliers) :
        report.outliers[k].severity
            = IF NearItsBound(RInt(report.outliers[k].execution_time_ms), report.bounds)
              THEN "mild" ELSE "moderate"


-----------------------------------------------------------------------------
(* _analyze_breakpoints on the scale points of one system (SpecBreakpoints): *)
(* runs on ontologies of a few sizes, the default size 0 included, with      *)
(* timings that grow by less than, between and beyond 2x and 3x the growth   *)
(* of the size.                                                              *)

MaxBreakRuns == 3

BreakScales == {0, 1, 2, 4}

BreakTimes == {1, 2, 5, 8}

InitBreakpoints ==
    /\ test_results \in
          UNION {[1..n -> {ScaledResult("A", sc, t) : sc \in BreakScales, t \in BreakTimes}] :
                    n \in 1..MaxBreakRuns}
    /\ compared = [k \in {"breakpoints"} |-> <<>>]
    /\ groupA = <<>>
    /\ groupB = <<>>
    /\ significance_level = DefaultSignificanceLevel
    /\ returned = [p \in Procs |-> <<>>]
    /\ results_cache = [p \in Procs |-> <<>>]
    /\ scipy = <<>>
    /\ hashSeed = [p \in Procs |-> <<>>]
    /\ nanStdevRaises = <<>>
    /\ calls = <<>>
    /\ profiler = NewProfiler

\* ZeroDivisionError on (time2 - time1) / time1 or (scale2 - scale1) / scale1
AnalyzeBreakpointsRaises(scale_performance) ==
    /\ Len(scale_performance) >= 3
    /\ \E i \in 1..(Len(scale_performance) - 1) :
          scale_performance[i][1] = 0 \/ scale_performance[i][2] = RInt(0)

\* scale_performance of the system as _scalability_analysis builds it, handed to
\* _analyze_breakpoints
FindBreakpoints ==
    \E scale_performance \in {ScalePerformance(test_results, "A")} :
        Computed("breakpoints",
                 IF AnalyzeBreakpointsRaises(scale_performance) THEN Raises
                 ELSE Returns([scale_vs_time |-> scale_performance,
                               breakpoint_analysis |-> AnalyzeBreakpoints(scale_performance)]))

NextBreakpoints == FindBreakpoints

SpecBreakpoints == InitBreakpoints /\ [][NextBreakpoints]_vars

BreakpointsReturned == compared["breakpoints"] # <<>> /\ ~compared["breakpoints"][1].raised

\* the scale points and the breakpoints reported for system A
PointsOfA == compared["breakpoints"][1].bundle[1].scale_vs_time

BreakpointsOfA == compared["breakpoints"][1].bundle[1].breakpoint_analysis.breakpoints

\* the increase from a to b in percent of a
PercentIncrease(a, b) == RMul(RDiv(RSub(b, a), a), RInt(100))

\* the metric grows by more than factor times the growth of the scale at point i
Outgrows(points, i, factor) ==
    RLt(RMul(PercentIncrease(RInt(points[i - 1][1]), RInt(points[i][1])), RInt(factor)),
        PercentIncrease(points[i - 1][2], points[i][2]))

\* the breakpoints of the consecutive pairs of points: (scale, time, severity)
BreakpointsOf(points) ==
    LET later == SelectSeq([i \in 1..(Len(points) - 1) |-> i + 1],
                           LAMBDA i : Outgrows(points, i, 2))
    IN  [k \in 1..Len(later) |->
            <<points[later[k]][1], points[later[k]][2],
              IF Outgrows(points, later[k], 3) THEN "high" ELSE "moderate">>]

Reported(breakpoints) ==
    [k \in 1..Len(breakpoints) |->
        <<breakpoints[k].scale, breakpoints[k].time, breakpoints[k].severity>>]

-----------------------------------------------------------------------------
(* The overall score (SpecRanking) *)

ResultsOf(reasoner) == SelectSeq(test_results, LAMBDA r : r.reasoner_name = reasoner)

\* 0.4 * performance + 0.3 * efficiency + 0.3 * reliability, each weight once, with
\* performance = 1 / (mean_time_ms + 1), no memory figures (efficiency 0) and
\* reliability = successful_tests / total_tests
WeightedScore(reasoner) ==
    LET mean_time_ms == Mean(Times(Successful(ResultsOf(reasoner))))
        performance == RDiv(RInt(1), RAdd(mean_time_ms, RInt(1)))
        reliability == Rat(Len(SuccessfulOnly(ResultsOf(reasoner))), Len(ResultsOf(reasoner)))
    IN  RAdd(RMul(Rat(4, 10), performance), RMul(Rat(3, 10), reliability))

\* C25: the overall_score by which a system is placed in the overall ranking is
\* 0.4 * performance + 0.3 * efficiency + 0.3 * reliability, where performance is
\* 1 / (mean_time_ms + 1) and reliability is successful_tests / total_tests of that
\* system; each weight is applied exactly once.
C25_OverallScoreIsWeightedOnce ==
    RankingsDone =>
        LET overall_ranking == compared["comparative"][1].bundle[1].overall_ranking
        IN  \A i \in 1..Len(overall_ranking) :
                Successful(ResultsOf(overall_ranking[i].key)) # <<>>
                    => overall_ranking[i].val = WeightedScore(overall_ranking[i].key)


-----------------------------------------------------------------------------
(* Ranks of the performance profiles (SpecRanking) *)

\* C26: the ranks of the k performance profiles are exactly the integers 1..k, each
\* used once; a profile with a strictly higher overall_score has a strictly smaller
\* rank, and no profile keeps the placeholder rank 0.
C26_RanksFollowTheScores ==
    ProfilesDone =>
        LET profiles == compared["profiles"][1].bundle[1]
            k == Len(profiles)
        IN  /\ {profiles[i].val.rank : i \in 1..k} = 1..k
            /\ \A i, j \in 1..k :
                  RLt(profiles[j].val.overall_score, profiles[i].val.overall_score)
                      => profiles[i].val.rank < profiles[j].val.rank


-----------------------------------------------------------------------------
(* Outcome rates (SpecRanking) *)

ReliabilityDone == compared["reliability"] # <<>> /\ ~compared["reliability"][1].raised

\* C27: in the reliability analysis the three outcome rates of every system partition
\* its observations: success_rate + timeout_rate + error_rate = 1, for every
\* combination of the success and timeout_occurred flags.
C27_RatesPartitionTheObservations ==
    ReliabilityDone =>
        LET reliability_analysis == compared["reliability"][1].bundle[1]
        IN  \A n \in 1..Len(reliability_analysis) :
                RAdd(RAdd(reliability_analysis[n].val.success_rate,
                          reliability_analysis[n].val.timeout_rate),
                     reliability_analysis[n].val.error_rate) = RInt(1)


-----------------------------------------------------------------------------
(* A sequence of analyses of named suites on one engine (SpecCache) *)

MaxCalls == 3

SuiteNames == {SuiteName, "other"}

\* the lists of the suites handed in: empty (the analysis raises) or one record
CachedLists == {<<>>} \cup {<<r>> : r \in SmallAlphabet}

InitCache ==
    /\ test_results = <<>>
    /\ returned = [p \in Procs |-> <<>>]
    /\ results_cache = [p \in Procs |-> <<>>]
    /\ scipy = <<>>
    /\ hashSeed = [p \in Procs |-> IF p = 1 THEN <<SuiteSeed>> ELSE <<>>]
    /\ nanStdevRaises = <<TRUE>>
    /\ significance_level = DefaultSignificanceLevel
    /\ groupA = <<>>
    /\ groupB = <<>>
    /\ compared = <<>>
    /\ calls = <<>>
    /\ profiler = NewProfiler

\* engine.analyze_benchmark_suite(BenchmarkSuite(name, results)) on the engine of
\* process 1; calls keeps, in order, what each call was given and how it ended
AnalyzeSuite(name, results) ==
    \E tested \in {TestedData(results)} :
    \E slots \in {UNION {CallSlots(d[1], d[2]) : d \in tested}} :
      /\ Len(calls) < MaxCalls
      /\ SuiteConstructible(results, nanStdevRaises[1])
      /\ \E lib \in [slots -> Outcomes] :
           /\ \A c \in slots : lib[c] \in OutcomesOf(c)
           /\ \A c \in slots : c \in DOMAIN scipy => scipy[c] = lib[c]
           /\ \E made \in {UNION {CallsMade(d[1], d[2], lib) : d \in tested}} :
              \E out \in {AnalyzeBenchmarkSuite(results, lib, significance_level,
                                                hashSeed[1][1], nanStdevRaises[1])} :
                /\ Admissible(lib, made, scipy)
                /\ scipy' = IF ReachesSignificanceTesting(results, nanStdevRaises[1])
                            THEN Remember(lib, made, scipy) ELSE scipy
                /\ results_cache' =
                      IF out.raised THEN results_cache
                      ELSE [results_cache EXCEPT ![1] = Put(@, name, out.bundle[1])]
                /\ returned' =
                      [returned EXCEPT ![1] =
                          <<[input |-> results,
                             raised |-> out.raised,
                             bundle |-> IF out.raised THEN <<>>
                                        ELSE <<Handed(out.bundle[1], results_cache'[1])>>]>>]
                /\ calls' = Append(calls, [suite_name |-> name] @@ returned'[1][1])
                /\ test_results' = ListAfterAnalysis(results)
                /\ UNCHANGED <<hashSeed, nanStdevRaises, significance_level,
                               groupA, groupB, compared, profiler>>

NextCache == \E name \in SuiteNames, results \in CachedLists : AnalyzeSuite(name, results)

SpecCache == InitCache /\ [][NextCache]_vars

\* the calls on suites of this name that returned, by position in the sequence
ReturnedCalls(name) ==
    {i \in 1..Len(calls) : calls[i].suite_name = name /\ ~calls[i].raised}

CacheKeys == {results_cache[1][i].key : i \in 1..Len(results_cache[1])}

CacheEntry(name) ==
    (CHOOSE e \in {results_cache[1][i] : i \in 1..Len(results_cache[1])} : e.key = name).val

Latest(indices) == CHOOSE i \in indices : \A j \in indices : j <= i

\* C28: after any sequence of analyses on one engine, the cache holds an entry for
\* exactly the names whose analysis returned, each entry is the bundle of the latest
\* returning analysis of that name (so a call leaves the entries of other names
\* alone), and each returned bundle is computed from the list of its own call.
C28_CacheHoldsLatestBundlePerName ==
    /\ \A name \in SuiteNames :
          IF ReturnedCalls(name) = {}
          THEN name \notin CacheKeys
          ELSE /\ Cardinality({i \in 1..Len(results_cache[1]) :
                                  results_cache[1][i].key = name}) = 1
               /\ CacheEntry(name) = calls[Latest(ReturnedCalls(name))].bundle[1]
    /\ CacheKeys \subseteq SuiteNames
    /\ \A i \in 1..Len(calls) :
          ~calls[i].raised =>
             LET summary == calls[i].bundle[1].basic_statistics.summary
             IN  /\ summary.total_tests = Len(calls[i].input)
                 /\ summary.successful_tests
                       = Len(SelectSeq(calls[i].input, LAMBDA r : r.success))

\* a name analysed twice with different bundles, a raising analysis of it afterwards,
\* and another name analysed in between
C28_Witness ==
    /\ Len(calls) = MaxCalls
    /\ calls[1].suite_name = SuiteName /\ ~calls[1].raised
    /\ calls[2].suite_name = "other" /\ ~calls[2].raised
    /\ calls[3].suite_name = SuiteName /\ ~calls[3].raised
    /\ calls[1].bundle # calls[3].bundle
    /\ CacheEntry(SuiteName) = calls[3].bundle[1]
    /\ CacheEntry("other") = calls[2].bundle[1]


-----------------------------------------------------------------------------
(* The order of the scale points (SpecBreakpoints) *)

\* the same observations in every order
Reorderings(results) ==
    {[i \in 1..Len(results) |-> results[q[i]]] :
        q \in {f \in [1..Len(results) -> 1..Len(results)] :
                  \A i, j \in 1..Len(results) : f[i] = f[j] => i = j}}

OnePointPerScale(points) ==
    \A i, j \in 1..Len(points) : points[i][1] = points[j][1] => i = j

AscendingScales(points) ==
    \A i, j \in 1..Len(points) : i < j => points[i][1] < points[j][1]

\* C29: the scale points of a system are in strictly ascending order of scale, one
\* point per distinct scale, whatever the order of the observations; the breakpoints
\* reported are those of every other order of the same observations.
C29_ScalePointsAscend ==
    BreakpointsReturned =>
        /\ OnePointPerScale(PointsOfA)
        /\ AscendingScales(PointsOfA)
        /\ \A other \in Reorderings(test_results) :
              LET points == ScalePerformance(other, "A")
              IN  /\ ~AnalyzeBreakpointsRaises(points)
                  /\ AnalyzeBreakpoints(points).breakpoints = BreakpointsOfA


-----------------------------------------------------------------------------
(* The record stop_monitoring returns (SpecMonitor) *)

\* the samples in the timeline of the i-th record stop_monitoring returned
TimelineOf(i) == profiler.lists[profiler.consumed[i].memory_timeline]

\* C30: once stop_monitoring has returned a record, no step of any thread changes
\* the record's memory_timeline, and its peak_memory_mb is at least every sample in
\* the timeline, also when the join timed out.
C30_ReturnedRecordIsFinished ==
    [][/\ \A i \in 1..Len(profiler.consumed) : TimelineOf(i)' = TimelineOf(i)
       /\ \A i \in 1..Len(profiler.consumed') :
             \A k \in 1..Len(TimelineOf(i)') :
                TimelineOf(i)'[k][2] <= profiler.consumed'[i].peak_memory_mb]_vars

====
